---- MODULE Spec2Model ----
(***************************************************************************)
(* EEMS 2.0 (consbio/EEMS): the command catalogue and validator (EEMSCmd), *)
(* the program loader/scheduler (EEMSProgram), the evaluation engine       *)
(* (EEMSCmdRunnerBase with the NetCDF ReadMulti) and the orchestrator      *)
(* (EEMSInterpreter), as state machines.                                   *)
(*                                                                         *)
(* Numbers are exact rationals <<n, d>> (d > 0, lowest terms); a masked    *)
(* cell is <<0, 0>> and a NaN cell is <<1, 0>>.  Python indices are kept   *)
(* 0-based in crntCmdNdx; None is the empty tuple.                         *)
(***************************************************************************)
EXTENDS Integers, Sequences, FiniteSets, TLC

VARIABLES
    prog,                 \* the statements of the command file, in declaration order
    stmtNdx,              \* number of statements already handed to __AddCmd
    unorderedCmds,        \* EEMSProgram.unorderedCmds
    orderedCmds,          \* EEMSProgram.orderedCmds
    allDefinedFieldNms,   \* EEMSProgram.allDefinedFieldNms : field name -> command
    dpndsInOrderedCmds,   \* local of __OrderCmds, kept across sweeps
    crntCmdNdx,           \* EEMSProgram.crntCmdNdx : None or <<index>>
    pc,                   \* position of the load / run / engine client
    err,                  \* tag of the exception that ended load or run ("" if none)
    errCmds,              \* the commands named in the exception text
    sweeps,               \* completed iterations of the while loop of __OrderCmds
    rtrn,                 \* value returned by the last cursor call
    dfltOptnlParamVals,   \* EEMSInterpreter.dfltOptnlParamVals
    paramOverrideVals,    \* EEMSInterpreter.paramOverrideVals
    cmdParams,            \* cmdParams built by the last RunProgram iteration
    dispatched,           \* ordered-list positions dispatched so far, in order
    finishCnt,            \* number of calls of the engine's Finish
    inFile,               \* contents of the input file: field name -> array
    EEMSFlds,             \* EEMSCmdRunnerBase.EEMSFlds : name -> [outFNm, data]
    arrayShape,           \* EEMSCmdRunnerBase.arrayShape : None or <<len>>
    lastOp,               \* the engine operation last called, with its outcome
    execBinds,            \* whether exec() binds stackedArrs in the caller's frame
    inLines,              \* the lines of the command file, each a sequence of characters
    inLineCnt,            \* local of EEMSProgram.__init__ : lines read so far
    cmdLine,              \* local of __init__ : the statement being reassembled
    inParens,             \* local of __init__
    parenCnt,             \* local of __init__ : parenthesis depth
    cmdStartLineNum,      \* local of __init__ : None while unassigned, or <<line>>
    cmdStrs,              \* the texts handed to __AddCmd, in order
    errLineNum            \* the line number in the exception text, None or <<line>>

progVars   == <<prog, stmtNdx, unorderedCmds, orderedCmds, allDefinedFieldNms,
                dpndsInOrderedCmds, crntCmdNdx, sweeps, rtrn>>
interpVars == <<dfltOptnlParamVals, paramOverrideVals, cmdParams, dispatched, finishCnt>>
engineVars == <<inFile, EEMSFlds, arrayShape, lastOp, execBinds>>
readerVars == <<inLines, inLineCnt, cmdLine, inParens, parenCnt, cmdStartLineNum,
                cmdStrs, errLineNum>>
vars       == <<progVars, pc, err, errCmds, interpVars, engineVars, readerVars>>

None == <<>>

----------------------------------------------------------------------------
(* Bounds of the model *)

MaxCmds == 3        \* longest command file, in statements
MaxFlds == 3        \* most fields the engine client puts in the registry
MaxLen  == 3        \* longest list parameter of a generated statement
MaxLines == 3       \* longest command file, in lines

----------------------------------------------------------------------------
(* Exact rational arithmetic standing for Python floats *)

Abs(n) == IF n < 0 THEN -n ELSE n

RECURSIVE GCD(_, _)
GCD(a, b) == IF b = 0 THEN a ELSE GCD(b, a % b)

Q(n, d) ==
    LET g == GCD(Abs(n), Abs(d))
        s == IF d < 0 THEN -1 ELSE 1
    IN  <<(s * n) \div g, (s * d) \div g>>

R(n) == <<n, 1>>

Masked == <<0, 0>>
NaN    == <<1, 0>>

IsNum(x) == x[2] # 0

RAdd(x, y) == Q(x[1] * y[2] + y[1] * x[2], x[2] * y[2])
RSub(x, y) == Q(x[1] * y[2] - y[1] * x[2], x[2] * y[2])
RMul(x, y) == Q(x[1] * y[1], x[2] * y[2])
RDiv(x, y) == Q(x[1] * y[2], x[2] * y[1])
RLt(x, y)  == x[1] * y[2] < y[1] * x[2]
RLe(x, y)  == x[1] * y[2] <= y[1] * x[2]
RNeg(x)    == <<-x[1], x[2]>>

----------------------------------------------------------------------------
(* EEMSCmd: parameter values, the command catalogue, the validator *)

\* A parameter value after tokenisation: names in s, numbers in q.
SV(nm)   == [s |-> <<nm>>, q |-> <<>>]
LV(nms)  == [s |-> nms,    q |-> <<>>]
QV(x)    == [s |-> <<>>,   q |-> <<x>>]
QL(xs)   == [s |-> <<>>,   q |-> xs]

NoParams == [x \in {} |-> SV("")]

Desc(result, req, opt, rtrnType, inputType) ==
    [Result |-> result, Required |-> req, Optional |-> opt,
     RtrnType |-> rtrnType, InputType |-> inputType]

OutFile    == "OutFileName" :> "File Name"
OneIn      == "InFieldName" :> "Field Name"
ManyIn     == "InFieldNames" :> "Field Name List"
Weighted   == ManyIn @@ ("Weights" :> "Positive Float List")
FldNmRslt  == <<"Field Name">>

CmdNames ==
    {"READ", "READMULTI", "CVTTOFUZZY", "CVTTOFUZZYCURVE", "CVTTOFUZZYCAT",
     "COPYFIELD", "NOT", "SELECTEDUNION", "OR", "ORNEG", "XOR", "SUM", "MIN",
     "MAX", "MEAN", "UNION", "AND", "EMDSAND", "DIF", "WTDUNION", "WTDMEAN",
     "WTDSUM", "WTDEMDSAND", "CALLEXTERN", "SCORERANGEBENEFIT",
     "SCORERANGECOST", "MEANTOMID"}

CmdDesc(cmd) ==
    CASE cmd = "READ" ->
           Desc(<<>>, ("InFileName" :> "File Name") @@ OneIn,
                OutFile @@ ("NewFieldName" :> "Field Name"), "Numeric", "Numeric")
      [] cmd = "READMULTI" ->
           Desc(<<>>, ("InFileName" :> "File Name") @@ ManyIn,
                OutFile @@ ("NewFieldNames" :> "Field Name List"), "Numeric", "Numeric")
      [] cmd = "CVTTOFUZZY" ->
           Desc(FldNmRslt, OneIn @@ ("TrueThreshold" :> "Float") @@ ("FalseThreshold" :> "Float"),
                OutFile, "Fuzzy", "Numeric")
      [] cmd = "CVTTOFUZZYCURVE" ->
           Desc(FldNmRslt, OneIn @@ ("RawValues" :> "Float List") @@ ("FuzzyValues" :> "Fuzzy Value List"),
                OutFile, "Fuzzy", "Numeric")
      [] cmd = "CVTTOFUZZYCAT" ->
           Desc(FldNmRslt, OneIn @@ ("RawValues" :> "Float List") @@ ("FuzzyValues" :> "Fuzzy Value List")
                                 @@ ("DefaultFuzzyValue" :> "Float"),
                OutFile, "Fuzzy", "Integer")
      [] cmd = "COPYFIELD" -> Desc(FldNmRslt, OneIn, OutFile, "Any", "Any")
      [] cmd = "NOT"       -> Desc(FldNmRslt, OneIn, OutFile, "Fuzzy", "Fuzzy")
      [] cmd = "SELECTEDUNION" ->
           Desc(FldNmRslt, ManyIn @@ ("TruestOrFalsest" :> "Truest or Falsest")
                                  @@ ("NumberToConsider" :> "Positive Integer"),
                OutFile, "Fuzzy", "Fuzzy")
      [] cmd \in {"OR", "ORNEG", "XOR", "UNION", "AND", "EMDSAND"} ->
           Desc(FldNmRslt, ManyIn, OutFile, "Fuzzy", "Fuzzy")
      [] cmd \in {"SUM", "MIN", "MAX", "MEAN"} ->
           Desc(FldNmRslt, ManyIn, OutFile, "Numeric", "Numeric")
      [] cmd = "DIF" ->
           Desc(FldNmRslt, ("StartingFieldName" :> "Field Name") @@ ("ToSubtractFieldName" :> "Field Name"),
                OutFile, "Numeric", "Numeric")
      [] cmd \in {"WTDUNION", "WTDEMDSAND"} -> Desc(FldNmRslt, Weighted, OutFile, "Fuzzy", "Fuzzy")
      [] cmd \in {"WTDMEAN", "WTDSUM"}      -> Desc(FldNmRslt, Weighted, OutFile, "Numeric", "Numeric")
      [] cmd = "CALLEXTERN" ->
           Desc(FldNmRslt, ManyIn @@ ("ImportName" :> "Import Name") @@ ("FunctionName" :> "Function Name")
                                  @@ ("ResultType" :> "Field Type Description"),
                OutFile, "Any", "Any")
      [] cmd \in {"SCORERANGEBENEFIT", "SCORERANGECOST"} ->
           Desc(FldNmRslt, OneIn, OutFile, "Fuzzy", "Numeric")
      [] cmd = "MEANTOMID" ->
           Desc(FldNmRslt, OneIn @@ ("IgnoreZeros" :> "Boolean") @@ ("FuzzyValues" :> "Fuzzy Value List"),
                OutFile, "Fuzzy", "Numeric")

\* A parsed statement (parsedCmd): rslt is <<>> or <<name>>.
Stmt(rslt, cmd, params) == [rslt |-> rslt, cmd |-> cmd, params |-> params]

HasResultName(c)   == c.rslt # <<>>
GetResultName(c)   == c.rslt[1]
GetCommandName(c)  == c.cmd
IsReadCmd(c)       == c.cmd \in {"READ", "READMULTI"}
HasParam(c, p)     == p \in DOMAIN c.params
GetParamNames(c)   == DOMAIN c.params
IsRequiredParam(c, p)    == p \in DOMAIN CmdDesc(c.cmd).Required
IsOptionalParam(c, p)    == p \in DOMAIN CmdDesc(c.cmd).Optional
GetOptionalParamNames(c) == DOMAIN CmdDesc(c.cmd).Optional
GetRequiredParamNames(c) == DOMAIN CmdDesc(c.cmd).Required

GetParamType(c, p) ==
    IF IsRequiredParam(c, p) THEN CmdDesc(c.cmd).Required[p]
    ELSE IF IsOptionalParam(c, p) THEN CmdDesc(c.cmd).Optional[p]
    ELSE "Unknown Type"

RInRange(x, lo, hi) == RLe(lo, x) /\ RLe(x, hi)

\* __IsStrValidInt: the text of the number matches ^[0-9]$, one digit
IsStrValidInt(x) == x[2] = 1 /\ x[1] \in 0..9

\* __IsParamType on a tokenised value
IsParamType(v, type) ==
    CASE type \in {"File Name", "Field Name", "Import Name", "Function Name",
                   "Boolean", "Truest or Falsest"} ->
           Len(v.s) = 1 /\ v.q = <<>>
      [] type = "Field Type Description" ->
           Len(v.s) = 1 /\ v.q = <<>> /\ v.s[1] \in {"Fuzzy", "Numeric", "Any"}
      [] type = "Float" -> Len(v.q) = 1 /\ v.s = <<>>
      [] type = "Integer" -> Len(v.q) = 1 /\ v.s = <<>> /\ IsStrValidInt(v.q[1])
      [] type = "Positive Integer" ->
           Len(v.q) = 1 /\ v.s = <<>> /\ IsStrValidInt(v.q[1]) /\ RLt(R(0), v.q[1])
      [] type = "Positive Float" ->
           Len(v.q) = 1 /\ v.s = <<>> /\ RLt(R(0), v.q[1])
      [] type = "Fuzzy Value" ->
           Len(v.q) = 1 /\ v.s = <<>> /\ RInRange(v.q[1], R(-1), R(1))
      [] type \in {"File Name List", "Field Name List"} -> Len(v.s) >= 1 /\ v.q = <<>>
      [] type = "Float List" -> Len(v.q) >= 1 /\ v.s = <<>>
      [] type = "Positive Float List" ->
           Len(v.q) >= 1 /\ v.s = <<>> /\ \A i \in 1..Len(v.q) : RLt(R(0), v.q[i])
      [] type = "Fuzzy Value List" ->
           Len(v.q) >= 1 /\ v.s = <<>> /\ \A i \in 1..Len(v.q) : RInRange(v.q[i], R(-1), R(1))

WeightedCmds == {"WTDUNION", "WTDMEAN", "WTDSUM", "WTDEMDSAND"}

WeightsMatch_EnoughWeights(c) ==
    Len(c.params["InFieldNames"].s) <= Len(c.params["Weights"].q)

\* the test on the lengths of InFieldNames and Weights, negated
WeightsMatch(c) ==
    Len(c.params["InFieldNames"].s) = Len(c.params["Weights"].q)

NumberToConsiderFits_OneMore(c) ==
    ~RLt(R(Len(c.params["InFieldNames"].s) + 1), c.params["NumberToConsider"].q[1])

\* the test of int(NumberToConsider) against the number of InFieldNames, negated
NumberToConsiderFits(c) ==
    ~RLt(R(Len(c.params["InFieldNames"].s)), c.params["NumberToConsider"].q[1])

\* __InitCmdDesc and __ValidateCmd : "ok" or the tag of the exception raised
ValidateCmd(c) ==
    LET d   == CmdDesc(c.cmd)
        all == DOMAIN d.Required \cup DOMAIN d.Optional
    IN  IF c.cmd \notin CmdNames THEN "IllegalCommand"
        ELSE IF d.Result = <<>> /\ c.rslt # <<>> THEN "CommandDoesNotUseResult"
        ELSE IF d.Result # <<>> /\ c.rslt = <<>> THEN "KeyError"
        ELSE IF c.cmd # "CALLEXTERN" /\ \E p \in DOMAIN c.params : p \notin all
             THEN "InvalidParameter"
        ELSE IF \E p \in DOMAIN d.Required : p \notin DOMAIN c.params
             THEN "RequiredParameterMissing"
        ELSE IF \E p \in DOMAIN c.params \cap all :
                    ~IsParamType(c.params[p], GetParamType(c, p))
             THEN "InvalidParameterValue"
        ELSE IF c.cmd \in {"CVTTOFUZZYCURVE", "CVTTOFUZZYCAT"}
                /\ Len(c.params["RawValues"].q) # Len(c.params["FuzzyValues"].q)
             THEN "RawFuzzyCountMismatch"
        ELSE IF c.cmd \in {"CVTTOFUZZYCURVE", "CVTTOFUZZYCAT"}
                /\ \E i, j \in 1..Len(c.params["RawValues"].q) :
                      i < j /\ c.params["RawValues"].q[i] = c.params["RawValues"].q[j]
             THEN "RawValuesNotUnique"
        ELSE IF c.cmd \in WeightedCmds /\ ~WeightsMatch(c)
             THEN "WeightsCountMismatch"
        ELSE IF c.cmd = "SELECTEDUNION" /\ ~NumberToConsiderFits(c)
             THEN "NumberToConsiderTooBig"
        ELSE IF c.cmd = "MEANTOMID" /\ Len(c.params["FuzzyValues"].q) # 5
             THEN "Not5FuzzyValues"
        ELSE "ok"

----------------------------------------------------------------------------
(* The statements command files are drawn from *)

InF == "InFileName" :> SV("in")

S_ReadRaw   == Stmt(<<>>, "READ", InF @@ ("InFieldName" :> SV("raw")))
S_ReadAsA   == Stmt(<<>>, "READ", InF @@ ("InFieldName" :> SV("raw")) @@ ("NewFieldName" :> SV("A")))
S_RsltRead  == Stmt(<<"A">>, "READ", InF @@ ("InFieldName" :> SV("raw")))
S_ReadMulti == Stmt(<<>>, "READMULTI", InF @@ ("InFieldNames" :> LV(<<"A", "B">>)))
S_ReadTwice == Stmt(<<>>, "READMULTI", InF @@ ("InFieldNames" :> LV(<<"E", "E">>)))
S_CvtB      == Stmt(<<"B">>, "CVTTOFUZZY", ("InFieldName" :> SV("A"))
                      @@ ("TrueThreshold" :> QV(R(100))) @@ ("FalseThreshold" :> QV(R(0))))
S_NotC      == Stmt(<<"C">>, "NOT", "InFieldName" :> SV("B"))
S_NotCOut   == Stmt(<<"C">>, "NOT", ("InFieldName" :> SV("B")) @@ ("OutFileName" :> SV("out")))
S_NotB      == Stmt(<<"B">>, "NOT", "InFieldName" :> SV("A"))
S_OrD       == Stmt(<<"D">>, "OR", "InFieldNames" :> LV(<<"E">>))
S_OrE       == Stmt(<<"E">>, "OR", "InFieldNames" :> LV(<<"D">>))
S_AndSelf   == Stmt(<<"E">>, "AND", "InFieldNames" :> LV(<<"E", "A">>))
S_DifC      == Stmt(<<"C">>, "DIF", ("StartingFieldName" :> SV("A")) @@ ("ToSubtractFieldName" :> SV("B")))
S_OrUndef   == Stmt(<<"F">>, "OR", "InFieldNames" :> LV(<<"B", "Z">>))

Stmts == {S_ReadRaw, S_ReadAsA, S_RsltRead, S_ReadMulti, S_ReadTwice, S_CvtB,
          S_NotC, S_NotCOut, S_NotB, S_OrD, S_OrE, S_AndSelf, S_DifC, S_OrUndef}

Programs == UNION {[1..n -> Stmts] : n \in 0..MaxCmds}

\* statements with list parameters of every length up to MaxLen
NmList(k)    == [i \in 1..k |-> IF i % 2 = 1 THEN "A" ELSE "B"]
WtList(k, w) == [i \in 1..k |-> w]

WeightedStmts ==
    {Stmt(<<"W">>, cmd, ("InFieldNames" :> LV(NmList(k))) @@ ("Weights" :> QL(WtList(j, w)))) :
        cmd \in WeightedCmds, k \in 1..MaxLen, j \in 1..MaxLen, w \in {R(1), R(3)}}

InAB == "InFieldNames" :> LV(<<"A", "B">>)
InA  == "InFieldName" :> SV("A")

\* parameters that pass the validation of each kind of command
ValidParams(cmd) ==
    CASE cmd = "READ"      -> InF @@ ("InFieldName" :> SV("raw"))
      [] cmd = "READMULTI" -> InF @@ ("InFieldNames" :> LV(<<"raw">>))
      [] cmd = "CVTTOFUZZY" ->
           InA @@ ("TrueThreshold" :> QV(R(1))) @@ ("FalseThreshold" :> QV(R(-1)))
      [] cmd = "CVTTOFUZZYCURVE" ->
           InA @@ ("RawValues" :> QL(<<R(-1), R(0), R(1)>>))
               @@ ("FuzzyValues" :> QL(<<R(1), R(-1), Q(1, 2)>>))
      [] cmd = "CVTTOFUZZYCAT" ->
           InA @@ ("RawValues" :> QL(<<R(-1), R(1)>>))
               @@ ("FuzzyValues" :> QL(<<R(1), Q(1, 2)>>))
               @@ ("DefaultFuzzyValue" :> QV(R(0)))
      [] cmd \in {"COPYFIELD", "NOT", "SCORERANGEBENEFIT", "SCORERANGECOST"} -> InA
      [] cmd \in {"OR", "ORNEG", "XOR", "UNION", "AND", "EMDSAND",
                  "SUM", "MIN", "MAX", "MEAN"} -> InAB
      [] cmd = "SELECTEDUNION" ->
           InAB @@ ("TruestOrFalsest" :> SV("Truest")) @@ ("NumberToConsider" :> QV(R(1)))
      [] cmd = "DIF" ->
           ("StartingFieldName" :> SV("A")) @@ ("ToSubtractFieldName" :> SV("B"))
      [] cmd \in WeightedCmds -> InAB @@ ("Weights" :> QL(<<R(1), R(3)>>))
      [] cmd = "CALLEXTERN" ->
           InAB @@ ("ImportName" :> SV("mod")) @@ ("FunctionName" :> SV("fn"))
                @@ ("ResultType" :> SV("Fuzzy"))
      [] cmd = "MEANTOMID" ->
           InA @@ ("IgnoreZeros" :> SV("False"))
               @@ ("FuzzyValues" :> QL(<<R(-1), Q(-1, 2), R(0), Q(1, 2), R(1)>>))

\* every kind of command, written with and without a result name
KindStmts ==
    {Stmt(r, cmd, ValidParams(cmd)) : cmd \in CmdNames, r \in {<<>>, <<"W">>}}

SelectedStmts ==
    {Stmt(<<"W">>, "SELECTEDUNION",
          ("InFieldNames" :> LV(NmList(k))) @@ ("TruestOrFalsest" :> SV(t))
              @@ ("NumberToConsider" :> QV(R(n)))) :
        k \in 1..MaxLen, n \in 0..(MaxLen + 1), t \in {"Truest", "Falsest"}}

----------------------------------------------------------------------------
(* EEMSProgram: loading and ordering *)

Range(f) == {f[i] : i \in DOMAIN f}

Pop(seq, ndx) == [i \in 1..(Len(seq) - 1) |-> IF i < ndx THEN seq[i] ELSE seq[i + 1]]

GetReadFieldNms(cmd) ==
    IF cmd.cmd = "READ"
    THEN IF HasParam(cmd, "NewFieldName") THEN cmd.params["NewFieldName"].s
                                          ELSE cmd.params["InFieldName"].s
    ELSE IF HasParam(cmd, "NewFieldNames") THEN cmd.params["NewFieldNames"].s
                                           ELSE cmd.params["InFieldNames"].s

GetDependFieldNms(cmd) ==
    IF IsReadCmd(cmd) THEN <<>>
    ELSE IF HasParam(cmd, "InFieldNames") THEN cmd.params["InFieldNames"].s
    ELSE IF HasParam(cmd, "InFieldName") THEN cmd.params["InFieldName"].s
    ELSE <<cmd.params["StartingFieldName"].s[1], cmd.params["ToSubtractFieldName"].s[1]>>

RegisterReadFlds_NoSelfCheck(fldNms, cmd, defs) ==
    IF \E i \in DOMAIN fldNms : fldNms[i] \in DOMAIN defs
    THEN [defs |-> defs,
          dup |-> <<fldNms[CHOOSE i \in DOMAIN fldNms : fldNms[i] \in DOMAIN defs]>>]
    ELSE [defs |-> [f \in Range(fldNms) |-> cmd] @@ defs, dup |-> <<>>]

\* the loop over the read field names in __AddCmd: stops at the first name
\* already registered, keeping the names registered before it
RECURSIVE RegisterReadFlds(_, _, _)
RegisterReadFlds(fldNms, cmd, defs) ==
    IF fldNms = <<>> THEN [defs |-> defs, dup |-> <<>>]
    ELSE IF Head(fldNms) \in DOMAIN defs THEN [defs |-> defs, dup |-> <<Head(fldNms)>>]
    ELSE RegisterReadFlds(Tail(fldNms), cmd, (Head(fldNms) :> cmd) @@ defs)

Fail(tag, cmds) ==
    /\ pc' = "failed"
    /\ err' = tag
    /\ errCmds' = cmds

\* __AddCmd on the command constructed from a statement
AddCmdTo(cmd) ==
    LET reg == RegisterReadFlds(GetReadFieldNms(cmd), cmd, allDefinedFieldNms)
    IN  IF ValidateCmd(cmd) # "ok"
        THEN /\ Fail(ValidateCmd(cmd), <<cmd>>)
             /\ UNCHANGED <<unorderedCmds, allDefinedFieldNms>>
        ELSE IF HasResultName(cmd)
        THEN IF GetResultName(cmd) \in DOMAIN allDefinedFieldNms
             THEN /\ Fail("DuplicateDefinition",
                          <<cmd, allDefinedFieldNms[GetResultName(cmd)]>>)
                  /\ UNCHANGED <<unorderedCmds, allDefinedFieldNms>>
             ELSE /\ allDefinedFieldNms' = (GetResultName(cmd) :> cmd) @@ allDefinedFieldNms
                  /\ unorderedCmds' = Append(unorderedCmds, cmd)
                  /\ UNCHANGED <<pc, err, errCmds>>
        ELSE IF IsReadCmd(cmd)
        THEN /\ allDefinedFieldNms' = reg.defs
             /\ IF reg.dup # <<>>
                THEN /\ Fail("DuplicateDefinition", <<cmd, reg.defs[reg.dup[1]]>>)
                     /\ UNCHANGED unorderedCmds
                ELSE /\ unorderedCmds' = Append(unorderedCmds, cmd)
                     /\ UNCHANGED <<pc, err, errCmds>>
        ELSE /\ unorderedCmds' = Append(unorderedCmds, cmd)
             /\ UNCHANGED <<pc, err, errCmds, allDefinedFieldNms>>

\* one statement closed by the reassembly loop of __init__ and handed to __AddCmd
AddCmd ==
    /\ pc = "reading"
    /\ stmtNdx < Len(prog)
    /\ stmtNdx' = stmtNdx + 1
    /\ AddCmdTo(prog[stmtNdx + 1])
    /\ UNCHANGED <<prog, orderedCmds, dpndsInOrderedCmds, crntCmdNdx, sweeps, rtrn>>
    /\ UNCHANGED <<interpVars, engineVars>>
    /\ UNCHANGED readerVars

UndefinedDepends_EarlierOnly(cmds, defs) ==
    LET early(k) == UNION {IF HasResultName(cmds[j]) THEN {GetResultName(cmds[j])}
                           ELSE Range(GetReadFieldNms(cmds[j])) : j \in 1..(k - 1)}
        bad == {k \in 1..Len(cmds) : \E i \in DOMAIN GetDependFieldNms(cmds[k]) :
                                         GetDependFieldNms(cmds[k])[i] \notin early(k)}
    IN  IF bad = {} THEN <<>> ELSE <<cmds[CHOOSE k \in bad : \A m \in bad : k <= m]>>

\* the commands of cmds, in order, that depend on a field no command defines
UndefinedDepends(cmds, defs) ==
    SelectSeq(cmds, LAMBDA cmd : \E i \in DOMAIN GetDependFieldNms(cmd) :
                                     GetDependFieldNms(cmd)[i] \notin DOMAIN defs)

\* end of the command file: the no-commands test of __init__, then the
\* missing-dependency check that opens __OrderCmds
CheckDepends ==
    /\ pc = "reading"
    /\ stmtNdx = Len(prog)
    /\ IF Len(unorderedCmds) = 0
       THEN Fail("NoCommands", <<>>)
       ELSE IF UndefinedDepends(unorderedCmds, allDefinedFieldNms) # <<>>
       THEN Fail("UndefinedField", <<Head(UndefinedDepends(unorderedCmds, allDefinedFieldNms))>>)
       ELSE /\ pc' = "ordering"
            /\ UNCHANGED <<err, errCmds>>
    /\ orderedCmds' = <<>>
    /\ dpndsInOrderedCmds' = <<>>
    /\ UNCHANGED <<prog, stmtNdx, unorderedCmds, allDefinedFieldNms, crntCmdNdx, sweeps, rtrn>>
    /\ UNCHANGED <<interpVars, engineVars>>
    /\ UNCHANGED readerVars

CmdHasAllDepends_AnyOne(cmd, dpnds) ==
    \E i \in DOMAIN GetDependFieldNms(cmd) : GetDependFieldNms(cmd)[i] \in Range(dpnds)

CmdHasAllDepends_AnyDefined(cmd, dpnds) ==
    \A i \in DOMAIN GetDependFieldNms(cmd) :
        GetDependFieldNms(cmd)[i] \in DOMAIN allDefinedFieldNms

CmdHasAllDepends(cmd, dpnds) ==
    \A i \in DOMAIN GetDependFieldNms(cmd) : GetDependFieldNms(cmd)[i] \in Range(dpnds)

RECURSIVE SweepFrom_Forward(_, _, _, _)
SweepFrom_Forward(ndx, un, ord, dpnds) ==
    LET i == Len(un) - ndx + 1
    IN  IF ndx = 0 THEN [un |-> un, ord |-> ord, dpnds |-> dpnds]
        ELSE IF IsReadCmd(un[i])
        THEN SweepFrom_Forward(ndx - 1, Pop(un, i), Append(ord, un[i]),
                               dpnds \o GetReadFieldNms(un[i]))
        ELSE IF CmdHasAllDepends(un[i], dpnds)
        THEN SweepFrom_Forward(ndx - 1, Pop(un, i), Append(ord, un[i]),
                               Append(dpnds, GetResultName(un[i])))
        ELSE SweepFrom_Forward(ndx - 1, un, ord, dpnds)

RECURSIVE SweepFrom_ReadNotKept(_, _, _, _)
SweepFrom_ReadNotKept(ndx, un, ord, dpnds) ==
    IF ndx = 0 THEN [un |-> un, ord |-> ord, dpnds |-> dpnds]
    ELSE IF IsReadCmd(un[ndx])
    THEN SweepFrom_ReadNotKept(ndx - 1, Pop(un, ndx), ord, dpnds \o GetReadFieldNms(un[ndx]))
    ELSE IF CmdHasAllDepends(un[ndx], dpnds)
    THEN SweepFrom_ReadNotKept(ndx - 1, Pop(un, ndx), Append(ord, un[ndx]),
                               Append(dpnds, GetResultName(un[ndx])))
    ELSE SweepFrom_ReadNotKept(ndx - 1, un, ord, dpnds)

\* the for loop of one sweep: indices from the last down to the first
RECURSIVE SweepFrom(_, _, _, _)
SweepFrom(ndx, un, ord, dpnds) ==
    IF ndx = 0 THEN [un |-> un, ord |-> ord, dpnds |-> dpnds]
    ELSE IF IsReadCmd(un[ndx])
    THEN SweepFrom(ndx - 1, Pop(un, ndx), Append(ord, un[ndx]),
                   dpnds \o GetReadFieldNms(un[ndx]))
    ELSE IF CmdHasAllDepends(un[ndx], dpnds)
    THEN SweepFrom(ndx - 1, Pop(un, ndx), Append(ord, un[ndx]),
                   Append(dpnds, GetResultName(un[ndx])))
    ELSE SweepFrom(ndx - 1, un, ord, dpnds)

NoneMoved_Never(before, after) == FALSE

\* startingCmdsToBeOrderedLen == len(self.unorderedCmds)
NoneMoved(before, after) == Len(before) = Len(after)

\* one iteration of the while loop of __OrderCmds
Sweep ==
    /\ pc = "ordering"
    /\ LET r == SweepFrom(Len(unorderedCmds), unorderedCmds, orderedCmds, dpndsInOrderedCmds)
       IN  /\ unorderedCmds' = r.un
           /\ orderedCmds' = r.ord
           /\ dpndsInOrderedCmds' = r.dpnds
           /\ IF NoneMoved(unorderedCmds, r.un)
              THEN /\ Fail("CircularLogic", r.un)
                   /\ UNCHANGED crntCmdNdx
              ELSE IF Len(r.un) > 0
              THEN UNCHANGED <<pc, err, errCmds, crntCmdNdx>>
              ELSE /\ crntCmdNdx' = <<0>>
                   /\ pc' = "loaded"
                   /\ UNCHANGED <<err, errCmds>>
    /\ sweeps' = sweeps + 1
    /\ UNCHANGED <<prog, stmtNdx, allDefinedFieldNms, rtrn>>
    /\ UNCHANGED <<interpVars, engineVars>>
    /\ UNCHANGED readerVars

----------------------------------------------------------------------------
(* EEMSProgram.__init__: the reassembly of statements from the lines of the *)
(* command file.  A line is a sequence of characters; a run of characters   *)
(* other than parentheses, "#" and blanks is written as one element.        *)

\* re.sub('#.*$','',inLine)
StripComment(line) ==
    IF \E i \in DOMAIN line : line[i] = "#"
    THEN SubSeq(line, 1, (CHOOSE i \in DOMAIN line :
                             line[i] = "#" /\ \A j \in 1..(i - 1) : line[j] # "#") - 1)
    ELSE line

\* str.strip()
RECURSIVE Strip(_)
Strip(line) ==
    IF line = <<>> THEN line
    ELSE IF Head(line) = " " THEN Strip(Tail(line))
    ELSE IF line[Len(line)] = " " THEN Strip(SubSeq(line, 1, Len(line) - 1))
    ELSE line

\* the loop over the characters of tmpLine from charNdx on: out is "more" when
\* the line ends inside a statement or outside any, "closed" when its last
\* character closes a statement, or the tag of the exception raised
RECURSIVE ScanChars(_, _, _, _, _)
ScanChars(tmpLine, charNdx, cl, inP, cnt) ==
    IF charNdx > Len(tmpLine)
    THEN [out |-> "more", cmdLine |-> cl, inParens |-> inP, parenCnt |-> cnt]
    ELSE LET ch   == tmpLine[charNdx]
             cl2  == Append(cl, ch)
             inP2 == inP \/ ch = "("
             cnt2 == IF ch = "(" THEN cnt + 1 ELSE IF ch = ")" THEN cnt - 1 ELSE cnt
             at(o) == [out |-> o, cmdLine |-> cl2, inParens |-> inP2, parenCnt |-> cnt2]
         IN  IF cnt2 < 0 THEN at("UnmatchedRightParen")
             ELSE IF inP2 /\ cnt2 = 0
             THEN IF charNdx < Len(tmpLine) THEN at("ExtraneousCharacters") ELSE at("closed")
             ELSE ScanChars(tmpLine, charNdx + 1, cl2, inP2, cnt2)

\* the parameter texts a statement of the catalogue is written with
P_Raw  == "InFileName = in, InFieldName = raw"
P_RawA == "InFileName = in, InFieldName = raw, NewFieldName = A"
P_A    == "InFieldName = A"

ParamTexts == (P_Raw  :> (InF @@ ("InFieldName" :> SV("raw"))))
           @@ (P_RawA :> (InF @@ ("InFieldName" :> SV("raw")) @@ ("NewFieldName" :> SV("A"))))
           @@ (P_A    :> ("InFieldName" :> SV("A")))

\* the texts of three statements
T_ReadRaw == <<"READ", "(", P_Raw, ")">>
T_ReadAsA == <<"READ", "(", P_RawA, ")">>
T_NotB    == <<"B", " ", "=", " ", "NOT", "(", P_A, ")">>

\* the words B, NOT, B, ... NOT, B written without a blank
JoinedNames == <<"B", "BNOTB", "BNOTBNOTB", "BNOTBNOTBNOTB", "BNOTBNOTBNOTBNOTB">>

\* re.sub(r'\s*=\s*','',...) of the text before the command name: the name
\* it leaves, "" when that is no field name (^\w+$) 
JoinName(words) ==
    IF /\ Len(words) % 2 = 1
       /\ (Len(words) + 1) \div 2 \in DOMAIN JoinedNames
       /\ \A i \in DOMAIN words : words[i] = IF i % 2 = 1 THEN "B" ELSE "NOT"
    THEN JoinedNames[(Len(words) + 1) \div 2]
    ELSE ""

\* __ParseEEMSCmd and the result check of __ValidateCmd on a closed text: the
\* regular expression is greedy, so the parameters start after the last "(",
\* the text up to the last "=" before it is the result and the rest is the
\* command name.  [ok, cmd] or [ok, err]
ParseEEMSCmd(cmdStr) ==
    LET t      == SelectSeq(cmdStr, LAMBDA ch : ch # " ")
        open   == CHOOSE i \in DOMAIN t : t[i] = "(" /\ \A j \in (i + 1)..Len(t) : t[j] # "("
        head   == SubSeq(t, 1, open - 1)
        params == SubSeq(t, open + 1, Len(t) - 1)
        eqs    == {i \in DOMAIN head : head[i] = "="}
        lastEq == IF eqs = {} THEN 0 ELSE CHOOSE i \in eqs : \A j \in eqs : j <= i
        words  == SelectSeq(SubSeq(head, 1, lastEq), LAMBDA ch : ch # "=")
        name   == SubSeq(head, lastEq + 1, Len(head))
        no(e)  == [ok |-> FALSE, err |-> e]
    IN  IF head = <<>>
        THEN no("InvalidCommandFormat")
        ELSE IF Len(name) # 1 \/ name[1] \notin CmdNames THEN no("IllegalCommand")
        ELSE IF lastEq # 0 /\ JoinName(words) = "" /\ name[1] \notin {"READ", "READMULTI"}
        THEN no("InvalidResult")
        ELSE IF Len(params) > 1 \/ (Len(params) = 1 /\ params[1] \notin DOMAIN ParamTexts)
        THEN no("InvalidParameter")
        ELSE [ok |-> TRUE,
              cmd |-> Stmt(IF lastEq = 0 THEN <<>> ELSE <<JoinName(words)>>,
                           name[1],
                           IF params = <<>> THEN <<>> ELSE ParamTexts[params[1]])]

CmdStartLineNum_EveryLine(cl, lineNum, startNum) == <<lineNum>>

\* if cmdLine == '': cmdStartLineNum = inLineCnt
CmdStartLineNum(cl, lineNum, startNum) ==
    IF cl = <<>> THEN <<lineNum>> ELSE startNum

\* one iteration of the loop over the lines of the file
ReadLine ==
    /\ pc = "reading"
    /\ inLineCnt < Len(inLines)
    /\ inLineCnt' = inLineCnt + 1
    /\ cmdStartLineNum' = CmdStartLineNum(cmdLine, inLineCnt + 1, cmdStartLineNum)
    /\ LET inLine == inLines[inLineCnt + 1]
           r      == ScanChars(Strip(StripComment(inLine)), 1, cmdLine, inParens, parenCnt)
           p      == ParseEEMSCmd(r.cmdLine)
       IN  IF r.out = "more"
           THEN /\ cmdLine' = r.cmdLine
                /\ inParens' = r.inParens
                /\ parenCnt' = r.parenCnt
                /\ UNCHANGED <<prog, stmtNdx, unorderedCmds, allDefinedFieldNms, pc, err,
                               errCmds, cmdStrs, errLineNum>>
           ELSE IF r.out = "closed"
           THEN /\ cmdStrs' = Append(cmdStrs, r.cmdLine)
                /\ IF ~p.ok
                   THEN /\ Fail(p.err, <<>>)
                        /\ cmdLine' = r.cmdLine
                        /\ inParens' = r.inParens
                        /\ parenCnt' = r.parenCnt
                        /\ UNCHANGED <<prog, stmtNdx, unorderedCmds, allDefinedFieldNms>>
                   ELSE /\ prog' = Append(prog, p.cmd)
                        /\ stmtNdx' = stmtNdx + 1
                        /\ AddCmdTo(p.cmd)
                        /\ IF pc' = "failed"
                           THEN /\ cmdLine' = r.cmdLine
                                /\ inParens' = r.inParens
                                /\ parenCnt' = r.parenCnt
                           ELSE /\ cmdLine' = <<>>
                                /\ inParens' = FALSE
                                /\ parenCnt' = 0
                /\ UNCHANGED errLineNum
           ELSE /\ Fail(r.out, <<>>)
                /\ errLineNum' = <<inLineCnt + 1>>
                /\ cmdLine' = r.cmdLine
                /\ inParens' = r.inParens
                /\ parenCnt' = r.parenCnt
                /\ UNCHANGED <<prog, stmtNdx, unorderedCmds, allDefinedFieldNms, cmdStrs>>
    /\ UNCHANGED <<inLines, orderedCmds, dpndsInOrderedCmds, crntCmdNdx, sweeps, rtrn>>
    /\ UNCHANGED <<interpVars, engineVars>>

\* after the last line: the unmatched-left-paren test, then the no-commands
\* test and the start of __OrderCmds
EndOfFile ==
    /\ pc = "reading"
    /\ inLineCnt = Len(inLines)
    /\ IF parenCnt > 0
       THEN /\ Fail("UnmatchedLeftParen", <<>>)
            /\ errLineNum' = cmdStartLineNum
            /\ UNCHANGED <<inLines, inLineCnt, cmdLine, inParens, parenCnt, cmdStartLineNum,
                           cmdStrs>>
            /\ UNCHANGED <<progVars, interpVars, engineVars>>
       ELSE CheckDepends

----------------------------------------------------------------------------
(* EEMSProgram: the cursor *)

\* the last cursor call and what it returned ("TypeError": it raised)
Rtrn(op, val) == [op |-> op, val |-> val]

PastLast_OffByOne(ndx, n) == ndx > n

\* the end test of NextCmd and the start test of PrevCmd
PastLast(ndx, n) == ndx >= n

BeforeFirst_BelowLast(ndx) == ndx < -1

\* self.crntCmdNdx < 0
BeforeFirst(ndx) == ndx < 0

NextCmd ==
    /\ pc = "loaded"
    /\ IF crntCmdNdx = None
       THEN /\ rtrn' = Rtrn("NextCmd", "TypeError")
            /\ UNCHANGED crntCmdNdx
       ELSE IF PastLast(crntCmdNdx[1] + 1, Len(orderedCmds))
       THEN /\ crntCmdNdx' = None
            /\ rtrn' = Rtrn("NextCmd", "False")
       ELSE /\ crntCmdNdx' = <<crntCmdNdx[1] + 1>>
            /\ rtrn' = Rtrn("NextCmd", "True")
    /\ UNCHANGED <<prog, stmtNdx, unorderedCmds, orderedCmds, allDefinedFieldNms,
                   dpndsInOrderedCmds, sweeps, pc, err, errCmds>>
    /\ UNCHANGED <<interpVars, engineVars>>
    /\ UNCHANGED readerVars

PrevCmd ==
    /\ pc = "loaded"
    /\ IF crntCmdNdx = None
       THEN /\ rtrn' = Rtrn("PrevCmd", "TypeError")
            /\ UNCHANGED crntCmdNdx
       ELSE IF BeforeFirst(crntCmdNdx[1] - 1)
       THEN /\ crntCmdNdx' = None
            /\ rtrn' = Rtrn("PrevCmd", "False")
       ELSE /\ crntCmdNdx' = <<crntCmdNdx[1] - 1>>
            /\ rtrn' = Rtrn("PrevCmd", "True")
    /\ UNCHANGED <<prog, stmtNdx, unorderedCmds, orderedCmds, allDefinedFieldNms,
                   dpndsInOrderedCmds, sweeps, pc, err, errCmds>>
    /\ UNCHANGED <<interpVars, engineVars>>
    /\ UNCHANGED readerVars

SetCrntCmdToFirst ==
    /\ pc = "loaded"
    /\ crntCmdNdx' = <<0>>
    /\ rtrn' = Rtrn("SetCrntCmdToFirst", "None")
    /\ UNCHANGED <<prog, stmtNdx, unorderedCmds, orderedCmds, allDefinedFieldNms,
                   dpndsInOrderedCmds, sweeps, pc, err, errCmds>>
    /\ UNCHANGED <<interpVars, engineVars>>
    /\ UNCHANGED readerVars

GetCrntCmd == orderedCmds[crntCmdNdx[1] + 1]

----------------------------------------------------------------------------
(* EEMSCmdRunnerBase: arrays *)

\* an elementwise binary operation; a masked operand masks the result, a
\* NaN operand makes it NaN
Lift2(F(_, _), x, y) ==
    IF x = Masked \/ y = Masked THEN Masked
    ELSE IF x = NaN \/ y = NaN THEN NaN
    ELSE F(x, y)

RMin(x, y) == IF RLe(x, y) THEN x ELSE y
RMax(x, y) == IF RLe(x, y) THEN y ELSE x

Add(x, y)  == Lift2(RAdd, x, y)
Sub(x, y)  == Lift2(RSub, x, y)
Mul(x, y)  == Lift2(RMul, x, y)
\* numpy.ma masks the cells of a division whose divisor is zero
Div(x, y)  == IF IsNum(y) /\ y[1] = 0 /\ x # Masked THEN Masked ELSE Lift2(RDiv, x, y)
Minimum(x, y) == Lift2(RMin, x, y)
Maximum(x, y) == Lift2(RMax, x, y)

\* array (op) array and array (op) scalar
Map2(F(_, _), a, b) == [i \in 1..Len(a) |-> F(a[i], b[i])]
MapS(F(_, _), a, k) == [i \in 1..Len(a) |-> F(a[i], k)]

ClipCell_HighOnly(x) == IF IsNum(x) /\ RLt(R(1), x) THEN R(1) ELSE x

\* np.ma.where(newData > 1.0, 1.0, newData), then the same at -1.0
ClipCell(x) ==
    IF ~IsNum(x) THEN x
    ELSE IF RLt(R(1), x) THEN R(1)
    ELSE IF RLt(x, R(-1)) THEN R(-1)
    ELSE x

Clip(a) == [i \in 1..Len(a) |-> ClipCell(a[i])]

Nums(a) == {a[i] : i \in {j \in 1..Len(a) : IsNum(a[j])}}

\* data.min() and data.max(): masked cells are skipped, a NaN cell makes the
\* result NaN, an all-masked array gives masked
ArrMin(a) ==
    IF \E i \in 1..Len(a) : a[i] = NaN THEN NaN
    ELSE IF Nums(a) = {} THEN Masked
    ELSE CHOOSE x \in Nums(a) : \A y \in Nums(a) : RLe(x, y)

ArrMax(a) ==
    IF \E i \in 1..Len(a) : a[i] = NaN THEN NaN
    ELSE IF Nums(a) = {} THEN Masked
    ELSE CHOOSE x \in Nums(a) : \A y \in Nums(a) : RLe(y, x)

\* a comparison is true only between two numbers
Lt(x, y) == IsNum(x) /\ IsNum(y) /\ RLt(x, y)

\* the order stackedArrs.sort(axis=0) leaves one cell's values in: numbers
\* ascending, then NaN, then masked
CellLe(x, y) ==
    IF y = Masked THEN TRUE
    ELSE IF x = Masked THEN FALSE
    ELSE IF y = NaN THEN TRUE
    ELSE IF x = NaN THEN FALSE
    ELSE RLe(x, y)

RECURSIVE SortCells(_)
SortCells(seq) ==
    IF seq = <<>> THEN <<>>
    ELSE LET k == CHOOSE i \in 1..Len(seq) :
                      \A j \in 1..Len(seq) : CellLe(seq[i], seq[j]) /\ (CellLe(seq[j], seq[i]) => i <= j)
         IN  <<seq[k]>> \o SortCells(Pop(seq, k))

RECURSIVE SumCells(_)
SumCells(seq) == IF seq = <<>> THEN R(0) ELSE Add(Head(seq), SumCells(Tail(seq)))

RECURSIVE SumQ(_)
SumQ(seq) == IF seq = <<>> THEN R(0) ELSE RAdd(Head(seq), SumQ(Tail(seq)))

\* stackedArrs[myRange].mean(axis=0) for one cell: the mean of the unmasked
\* selected values, masked if there is none
MeanOfSelected(seq) ==
    LET kept == SelectSeq(seq, LAMBDA x : x # Masked)
    IN  IF kept = <<>> THEN Masked ELSE Div(SumCells(kept), R(Len(kept)))

----------------------------------------------------------------------------
(* IEEE 754 binary64, the arithmetic of Python's float and of numpy's
   float64: natural numbers of any size as sequences of limbs, least
   significant first, and on them the four operations rounded to nearest,
   ties to even.  Only normal numbers and zero occur in the values used. *)

LimbBits == 15
Limb     == 2 ^ LimbBits
Pow2(n)  == 2 ^ n

RECURSIVE NNorm(_)
NNorm(a) ==
    IF a = <<>> THEN <<>>
    ELSE IF a[Len(a)] = 0 THEN NNorm(SubSeq(a, 1, Len(a) - 1)) ELSE a

RECURSIVE NAddC(_, _, _)
NAddC(a, b, c) ==
    IF a = <<>> /\ b = <<>> THEN (IF c = 0 THEN <<>> ELSE <<c>>)
    ELSE LET x == IF a = <<>> THEN 0 ELSE Head(a)
             y == IF b = <<>> THEN 0 ELSE Head(b)
             s == x + y + c
         IN  <<s % Limb>> \o NAddC(IF a = <<>> THEN a ELSE Tail(a),
                                   IF b = <<>> THEN b ELSE Tail(b), s \div Limb)

NAdd(a, b) == NAddC(a, b, 0)

\* a - b for a >= b
RECURSIVE NSubB(_, _, _)
NSubB(a, b, c) ==
    IF a = <<>> THEN <<>>
    ELSE LET y == IF b = <<>> THEN 0 ELSE Head(b)
             s == Head(a) - y - c
         IN  <<s % Limb>> \o NSubB(Tail(a), IF b = <<>> THEN b ELSE Tail(b),
                                   IF s < 0 THEN 1 ELSE 0)

NSub(a, b) == NNorm(NSubB(a, b, 0))

\* -1, 0 or 1 as a < b, a = b, a > b
RECURSIVE NCmpFrom(_, _, _)
NCmpFrom(a, b, i) ==
    IF i = 0 THEN 0
    ELSE IF a[i] < b[i] THEN -1
    ELSE IF a[i] > b[i] THEN 1
    ELSE NCmpFrom(a, b, i - 1)

NCmp(a, b) ==
    IF Len(a) < Len(b) THEN -1
    ELSE IF Len(a) > Len(b) THEN 1
    ELSE NCmpFrom(a, b, Len(a))

\* a * k + c for 0 <= k < Limb
RECURSIVE NMulSmallC(_, _, _)
NMulSmallC(a, k, c) ==
    IF a = <<>> THEN (IF c = 0 THEN <<>> ELSE <<c>>)
    ELSE LET s == Head(a) * k + c
         IN  <<s % Limb>> \o NMulSmallC(Tail(a), k, s \div Limb)

NMulSmall(a, k) == NNorm(NMulSmallC(a, k, 0))

NShlLimbs(a, n) == IF a = <<>> THEN <<>> ELSE [i \in 1..n |-> 0] \o a

RECURSIVE NMul(_, _)
NMul(a, b) ==
    IF b = <<>> THEN <<>>
    ELSE NAdd(NMulSmall(a, Head(b)), NShlLimbs(NMul(a, Tail(b)), 1))

\* a * 2^s
NShl(a, s) == NShlLimbs(NMulSmall(a, Pow2(s % LimbBits)), s \div LimbBits)

\* a \div 2^s
NShr(a, s) ==
    LET n == s \div LimbBits
        k == Pow2(s % LimbBits)
        t == IF n >= Len(a) THEN <<>> ELSE SubSeq(a, n + 1, Len(a))
    IN  NNorm([i \in 1..Len(t) |->
                 (t[i] \div k) + (IF i < Len(t) THEN (t[i + 1] % k) * (Limb \div k) ELSE 0)])

\* the number of bits of a
NBitLen(a) ==
    IF a = <<>> THEN 0
    ELSE LimbBits * (Len(a) - 1)
         + (CHOOSE n \in 1..LimbBits : Pow2(n - 1) <= a[Len(a)] /\ a[Len(a)] < Pow2(n))

\* bit i of a, bit 0 the least significant
NBit(a, i) ==
    IF i \div LimbBits >= Len(a) THEN 0
    ELSE (a[i \div LimbBits + 1] \div Pow2(i % LimbBits)) % 2

\* one step of long division: bit i of n is brought down to <<quotient, remainder>>
NDivStep(n, d, i, qr) ==
    LET r2 == NAddC(NMulSmall(qr[2], 2), <<>>, NBit(n, i))
        ge == NCmp(r2, d) >= 0
    IN  <<NAddC(NMulSmall(qr[1], 2), <<>>, IF ge THEN 1 ELSE 0),
          IF ge THEN NSub(r2, d) ELSE r2>>

\* the steps for bits hi down to lo, the pair so far computed first
RECURSIVE NDivRange(_, _, _, _, _)
NDivRange(n, d, hi, lo, qr) ==
    IF Len(qr) # 2 \/ hi < lo THEN qr
    ELSE IF hi = lo THEN NDivStep(n, d, hi, qr)
    ELSE LET mid == (hi + lo + 1) \div 2
         IN  NDivRange(n, d, mid - 1, lo, NDivRange(n, d, hi, mid, qr))

\* <<n \div d, n % d>>
NDivMod(n, d) == NDivRange(n, d, NBitLen(n) - 1, 0, <<<<>>, <<>>>>)

\* a cell of a float64 array: a number (-1)^neg * m * 2^e with m of MantBits
\* bits, or zero, or NaN, or a masked cell
MantBits == 53
FZero == [k |-> "num", neg |-> FALSE, m |-> <<>>, e |-> 0]
FNaN  == [k |-> "nan", neg |-> FALSE, m |-> <<>>, e |-> 0]
FMasked == [k |-> "masked", neg |-> FALSE, m |-> <<>>, e |-> 0]

\* (-1)^neg * m * 2^e, and more below it when sticky, rounded to nearest even
FRound(neg, m, e, sticky) ==
    LET len == NBitLen(m)
        d   == len - MantBits
    IN  IF m = <<>> THEN FZero
        ELSE IF d <= 0
        THEN [k |-> "num", neg |-> neg, m |-> NShl(m, -d), e |-> e + d]
        ELSE LET q     == NShr(m, d)
                 guard == NBit(m, d - 1) = 1
                 rest  == sticky \/ NShl(NShr(m, d - 1), d - 1) # m
                 up    == guard /\ (rest \/ NBit(q, 0) = 1)
                 q1    == IF up THEN NAddC(q, <<>>, 1) ELSE q
             IN  IF NBitLen(q1) > MantBits
                 THEN [k |-> "num", neg |-> neg, m |-> NShr(q1, 1), e |-> e + d + 1]
                 ELSE [k |-> "num", neg |-> neg, m |-> q1, e |-> e + d]

FNeg(a) == IF a.k # "num" \/ a.m = <<>> THEN a ELSE [a EXCEPT !.neg = ~a.neg]

FAdd(a, b) ==
    IF a.k # "num" \/ b.k # "num" THEN FNaN
    ELSE IF a.m = <<>> THEN b
    ELSE IF b.m = <<>> THEN a
    ELSE LET e0 == IF a.e < b.e THEN a.e ELSE b.e
             x  == NShl(a.m, a.e - e0)
             y  == NShl(b.m, b.e - e0)
         IN  IF a.neg = b.neg THEN FRound(a.neg, NAdd(x, y), e0, FALSE)
             ELSE IF NCmp(x, y) >= 0 THEN FRound(a.neg, NSub(x, y), e0, FALSE)
             ELSE FRound(b.neg, NSub(y, x), e0, FALSE)

FSub(a, b) == FAdd(a, FNeg(b))

FMul(a, b) ==
    IF a.k # "num" \/ b.k # "num" THEN FNaN
    ELSE FRound(a.neg # b.neg, NMul(a.m, b.m), a.e + b.e, FALSE)

\* a / b for b other than zero
FDiv(a, b) ==
    IF a.k # "num" \/ b.k # "num" THEN FNaN
    ELSE IF a.m = <<>> THEN FZero
    ELSE LET qr == NDivMod(NShl(a.m, MantBits + 3), b.m)
         IN  FRound(a.neg # b.neg, qr[1], a.e - b.e - (MantBits + 3), qr[2] # <<>>)

\* a < b ; false when either is NaN
FLt(a, b) ==
    LET mag(x, y) == \* |x| < |y|
            IF y.m = <<>> THEN FALSE
            ELSE IF x.m = <<>> THEN TRUE
            ELSE x.e < y.e \/ (x.e = y.e /\ NCmp(x.m, y.m) < 0)
    IN  /\ a.k = "num"
        /\ b.k = "num"
        /\ IF a.neg /\ ~b.neg THEN TRUE
           ELSE IF ~a.neg /\ b.neg THEN FALSE
           ELSE IF a.neg THEN mag(b, a) ELSE mag(a, b)

FLe_Strict(a, b) == FLt(a, b)

\* a <= b ; false when either is NaN
FLe(a, b) == a.k = "num" /\ b.k = "num" /\ ~FLt(b, a)

\* float(n) for a small integer n, and float of the decimal literal n/d
FInt(n)    == FRound(n < 0, IF n = 0 THEN <<>> ELSE <<IF n < 0 THEN -n ELSE n>>, 0, FALSE)
FDec(n, d) == FDiv(FInt(n), FInt(d))

\* np.ma.where(cond, a, b) at a cell x of the data the condition is on
FWhere(x, cond, a, b) == IF x = FMasked THEN FMasked ELSE IF cond THEN a ELSE b

----------------------------------------------------------------------------
(* EEMSCmdRunnerBase: the registry and the operators.  An operator takes   *)
(* the engine state st = [flds, shape] and returns the state it leaves,    *)
(* with ok = FALSE and the exception's tag when it raises; ins holds the   *)
(* name and shape handed to _AddFieldToEEMSFlds, if it got that far.       *)

MinForFuzzyLimit == -9999
MaxForFuzzyLimit == 9999

EngineState == [flds |-> EEMSFlds, shape |-> arrayShape]

Raise(st, tag) ==
    [ok |-> FALSE, flds |-> st.flds, shape |-> st.shape, err |-> tag, ins |-> <<>>]

Data(st, nm) == st.flds[nm].data

AddFieldToEEMSFlds_NoShapeCheck(st, outFNm, fldNm, fldArray) ==
    LET ins == <<[name |-> fldNm, shape |-> <<Len(fldArray)>>]>>
    IN  IF fldNm \in DOMAIN st.flds
        THEN [Raise(st, "TypeError") EXCEPT !.ins = ins]
        ELSE [ok |-> TRUE, err |-> "", ins |-> ins,
              flds |-> (fldNm :> [outFNm |-> outFNm, data |-> fldArray]) @@ st.flds,
              shape |-> IF st.shape = None THEN <<Len(fldArray)>> ELSE st.shape]

AddFieldToEEMSFlds_ShapeFirst(st, outFNm, fldNm, fldArray) ==
    LET ins == <<[name |-> fldNm, shape |-> <<Len(fldArray)>>]>>
    IN  IF fldNm \in DOMAIN st.flds
        THEN [Raise(st, "TypeError") EXCEPT !.ins = ins]
        ELSE IF st.shape # None /\ <<Len(fldArray)>> # st.shape
        THEN [Raise(st, "DataShapeMismatch") EXCEPT !.ins = ins, !.shape = <<Len(fldArray)>>]
        ELSE [ok |-> TRUE, err |-> "", ins |-> ins,
              flds |-> (fldNm :> [outFNm |-> outFNm, data |-> fldArray]) @@ st.flds,
              shape |-> <<Len(fldArray)>>]

\* _AddFieldToEEMSFlds; the duplicate-name branch raises TypeError while
\* formatting its message
AddFieldToEEMSFlds(st, outFNm, fldNm, fldArray) ==
    LET ins == <<[name |-> fldNm, shape |-> <<Len(fldArray)>>]>>
    IN  IF fldNm \in DOMAIN st.flds
        THEN [Raise(st, "TypeError") EXCEPT !.ins = ins]
        ELSE IF st.shape # None /\ <<Len(fldArray)>> # st.shape
        THEN [Raise(st, "DataShapeMismatch") EXCEPT !.ins = ins]
        ELSE [ok |-> TRUE, err |-> "", ins |-> ins,
              flds |-> (fldNm :> [outFNm |-> outFNm, data |-> fldArray]) @@ st.flds,
              shape |-> IF st.shape = None THEN <<Len(fldArray)>> ELSE st.shape]

VerifyFuzzyField_NoCheck(st, inFldNm) ==
    IF inFldNm \notin DOMAIN st.flds THEN "KeyError" ELSE ""

\* _VerifyFuzzyField : "" or the tag of the exception
VerifyFuzzyField(st, inFldNm) ==
    IF inFldNm \notin DOMAIN st.flds THEN "KeyError"
    ELSE IF Lt(ArrMin(Data(st, inFldNm)), R(-1)) \/ Lt(R(1), ArrMax(Data(st, inFldNm)))
    THEN "FuzzyRange"
    ELSE ""

\* for inFldNm in inFieldNames: self._VerifyFuzzyField(inFldNm)
RECURSIVE VerifyAll(_, _)
VerifyAll(st, inFieldNames) ==
    IF inFieldNames = <<>> THEN ""
    ELSE IF VerifyFuzzyField(st, Head(inFieldNames)) # ""
    THEN VerifyFuzzyField(st, Head(inFieldNames))
    ELSE VerifyAll(st, Tail(inFieldNames))

AllPresent(st, nms) == \A i \in DOMAIN nms : nms[i] \in DOMAIN st.flds

\* one cell of every named field, in the order of the names
Column(st, nms, i) == [k \in 1..Len(nms) |-> Data(st, nms[k])[i]]

Cells(st) == IF st.shape = None THEN {} ELSE 1..st.shape[1]

RECURSIVE FoldCells(_, _, _)
FoldCells(F(_, _), seq, acc) ==
    IF seq = <<>> THEN acc ELSE FoldCells(F, Tail(seq), F(acc, Head(seq)))

\* newData = first field, then np.ma.minimum / maximum with each other field
MinArr(st, nms) == [i \in Cells(st) |-> FoldCells(Minimum, Tail(Column(st, nms, i)), Column(st, nms, i)[1])]
MaxArr(st, nms) == [i \in Cells(st) |-> FoldCells(Maximum, Tail(Column(st, nms, i)), Column(st, nms, i)[1])]
\* newData = zeros, then += each field
SumArr(st, nms) == [i \in Cells(st) |-> FoldCells(Add, Column(st, nms, i), R(0))]
\* newData = zeros, then += field * weight
WtdSumArr(st, nms, weights) ==
    [i \in Cells(st) |->
        FoldCells(Add, [k \in 1..Len(nms) |-> Mul(Data(st, nms[k])[i], weights[k])], R(0))]

Read_InFile(file, inFileName) == inFileName = "in"

\* the loop of EEMSNetCDF ReadMulti over the (inFldNm, outFldNm) pairs
RECURSIVE ReadPairs(_, _, _, _, _)
ReadPairs(st, file, ins, outs, outFileName) ==
    IF ins = <<>> \/ outs = <<>>
    THEN [ok |-> TRUE, flds |-> st.flds, shape |-> st.shape, err |-> "", ins |-> <<>>]
    ELSE IF Head(ins) \notin DOMAIN file THEN Raise(st, "CannotReadField")
    ELSE LET r == AddFieldToEEMSFlds(st, outFileName, Head(outs), file[Head(ins)])
         IN  IF ~r.ok THEN r
             ELSE LET rest == ReadPairs([flds |-> r.flds, shape |-> r.shape], file,
                                        Tail(ins), Tail(outs), outFileName)
                  IN  IF rest.ins = <<>> THEN [rest EXCEPT !.ins = r.ins] ELSE rest

\* EEMSNetCDF.EEMSCmdRunner.ReadMulti; newFieldNames is <<"NONE">> for 'NONE'
ReadMulti(st, file, inFileName, inFieldNames, outFileName, newFieldNames) ==
    IF ~Read_InFile(file, inFileName) THEN Raise(st, "IOError")
    ELSE ReadPairs(st, file, inFieldNames,
                   IF newFieldNames = <<"NONE">> THEN inFieldNames ELSE newFieldNames,
                   outFileName)

\* EEMSCmdRunnerBase.Read
Read(st, file, inFileName, inFieldName, outFileName, newFieldName) ==
    ReadMulti(st, file, inFileName, <<inFieldName>>, outFileName, <<newFieldName>>)

Threshold_AsGiven(st, inFieldName, t) == t

\* falseThresh and trueThresh of CvtToFuzzy
Threshold(st, inFieldName, t) ==
    IF t = R(MinForFuzzyLimit) THEN ArrMin(Data(st, inFieldName))
    ELSE IF t = R(MaxForFuzzyLimit) THEN ArrMax(Data(st, inFieldName))
    ELSE t

CvtSlope_Swapped(trueThresh, falseThresh) ==
    Div(Sub(R(-1), R(1)), Sub(trueThresh, falseThresh))

\* m = (-1. - 1.) / (falseThresh - trueThresh)
CvtSlope(trueThresh, falseThresh) ==
    Div(Sub(R(-1), R(1)), Sub(falseThresh, trueThresh))

CvtToFuzzy(st, inFieldName, trueThreshold, falseThreshold, outFileName, rsltName) ==
    IF inFieldName \notin DOMAIN st.flds
       /\ {trueThreshold, falseThreshold} \cap {R(MinForFuzzyLimit), R(MaxForFuzzyLimit)} # {}
    THEN Raise(st, "KeyError")
    ELSE IF inFieldName \notin DOMAIN st.flds
    THEN IF trueThreshold = falseThreshold THEN Raise(st, "DegenerateThresholds")
         ELSE Raise(st, "KeyError")
    ELSE LET falseThresh == Threshold(st, inFieldName, falseThreshold)
             trueThresh  == Threshold(st, inFieldName, trueThreshold)
             m == CvtSlope(trueThresh, falseThresh)
             b == Sub(R(1), Mul(m, trueThresh))
         IN  IF IsNum(trueThresh) /\ IsNum(falseThresh) /\ trueThresh = falseThresh
             THEN Raise(st, "DegenerateThresholds")
             ELSE AddFieldToEEMSFlds(st, outFileName, rsltName,
                      Clip([i \in Cells(st) |-> Add(Mul(Data(st, inFieldName)[i], m), b)]))

\* slope and intercept of the segment from anchor ndx-1 to anchor ndx
CurveSlope64(rawValues, fuzzyValues, ndx) ==
    FDiv(FSub(fuzzyValues[ndx], fuzzyValues[ndx - 1]),
         FSub(rawValues[ndx], rawValues[ndx - 1]))

CurveIntercept64(rawValues, fuzzyValues, ndx) ==
    FSub(fuzzyValues[ndx - 1],
         FMul(CurveSlope64(rawValues, fuzzyValues, ndx), rawValues[ndx - 1]))

\* the loop of CvtToFuzzyCurve over the segments ndx .. len(rawValues)-1
\* (indices from 1 here)
RECURSIVE CurveSegments64(_, _, _, _, _)
CurveSegments64(data, rawValues, fuzzyValues, ndx, newData) ==
    IF ndx > Len(rawValues) THEN newData
    ELSE LET m == CurveSlope64(rawValues, fuzzyValues, ndx)
             b == CurveIntercept64(rawValues, fuzzyValues, ndx)
         IN  CurveSegments64(data, rawValues, fuzzyValues, ndx + 1,
                 [i \in DOMAIN data |->
                     FWhere(data[i], FLe(data[i], rawValues[ndx - 1]),
                            newData[i],
                            FWhere(data[i], FLe(data[i], rawValues[ndx]),
                                   FAdd(FMul(data[i], m), b),
                                   newData[i]))])

\* newData of CvtToFuzzyCurve, computed in float64
CurveData64(data, rawValues, fuzzyValues) ==
    LET init  == [i \in DOMAIN data |->
                     FWhere(data[i], data[i] = FNaN, FNaN, FInt(MinForFuzzyLimit))]
        low   == [i \in DOMAIN data |->
                     FWhere(data[i], FLe(data[i], rawValues[1]), fuzzyValues[1], init[i])]
        segs  == CurveSegments64(data, rawValues, fuzzyValues, 2, low)
        high  == [i \in DOMAIN data |->
                     FWhere(data[i], FLt(rawValues[Len(rawValues)], data[i]),
                            fuzzyValues[Len(fuzzyValues)], segs[i])]
        clip1 == [i \in DOMAIN data |->
                     FWhere(high[i], FLt(FInt(1), high[i]), FInt(1), high[i])]
    IN  [i \in DOMAIN data |->
            FWhere(clip1[i], FLt(clip1[i], FInt(-1)), FInt(-1), clip1[i])]

\* CvtToFuzzyCurve on a field of float64 cells
CvtToFuzzyCurve64(st, inFieldName, rawValues, fuzzyValues, outFileName, rsltName) ==
    IF inFieldName \notin DOMAIN st.flds THEN Raise(st, "KeyError")
    ELSE AddFieldToEEMSFlds(st, outFileName, rsltName,
             CurveData64(Data(st, inFieldName), rawValues, fuzzyValues))

CopyField(st, inFieldName, outFileName, rsltName) ==
    IF inFieldName \notin DOMAIN st.flds THEN Raise(st, "KeyError")
    ELSE AddFieldToEEMSFlds(st, outFileName, rsltName, Data(st, inFieldName))

DifFlds(st, startingFieldName, toSubtractFieldName, outFileName, rsltName) ==
    IF ~AllPresent(st, <<startingFieldName, toSubtractFieldName>>) THEN Raise(st, "KeyError")
    ELSE AddFieldToEEMSFlds(st, outFileName, rsltName,
             Map2(Sub, Data(st, startingFieldName), Data(st, toSubtractFieldName)))

FuzzyNot(st, inFieldName, outFileName, rsltName) ==
    IF VerifyFuzzyField(st, inFieldName) # "" THEN Raise(st, VerifyFuzzyField(st, inFieldName))
    ELSE AddFieldToEEMSFlds(st, outFileName, rsltName,
             Clip(MapS(Mul, Data(st, inFieldName), R(-1))))

FuzzyUnion(st, inFieldNames, outFileName, rsltName) ==
    IF VerifyAll(st, inFieldNames) # "" THEN Raise(st, VerifyAll(st, inFieldNames))
    ELSE AddFieldToEEMSFlds(st, outFileName, rsltName,
             Clip(MapS(Div, SumArr(st, inFieldNames), R(Len(inFieldNames)))))

FuzzyOr(st, inFieldNames, outFileName, rsltName) ==
    IF VerifyAll(st, inFieldNames) # "" THEN Raise(st, VerifyAll(st, inFieldNames))
    ELSE AddFieldToEEMSFlds(st, outFileName, rsltName, Clip(MaxArr(st, inFieldNames)))

FuzzyAnd(st, inFieldNames, outFileName, rsltName) ==
    IF VerifyAll(st, inFieldNames) # "" THEN Raise(st, VerifyAll(st, inFieldNames))
    ELSE AddFieldToEEMSFlds(st, outFileName, rsltName, Clip(MinArr(st, inFieldNames)))

FuzzyOrNeg(st, inFieldNames, outFileName, rsltName) ==
    FuzzyAnd(st, inFieldNames, outFileName, rsltName)

\* minVals + (meanVals - minVals) * (minVals + 1) / 2
EMDSAndCell(minVal, meanVal) ==
    Add(minVal, Div(Mul(Sub(meanVal, minVal), Add(minVal, R(1))), R(2)))

FuzzyEMDSAnd(st, inFieldNames, outFileName, rsltName) ==
    IF VerifyAll(st, inFieldNames) # "" THEN Raise(st, VerifyAll(st, inFieldNames))
    ELSE AddFieldToEEMSFlds(st, outFileName, rsltName,
             Clip(Map2(EMDSAndCell, MinArr(st, inFieldNames),
                       MapS(Div, SumArr(st, inFieldNames), R(Len(inFieldNames))))))

FuzzyWeightedUnion(st, inFieldNames, weights, outFileName, rsltName) ==
    IF VerifyAll(st, inFieldNames) # "" THEN Raise(st, VerifyAll(st, inFieldNames))
    ELSE IF Len(weights) < Len(inFieldNames) THEN Raise(st, "IndexError")
    ELSE AddFieldToEEMSFlds(st, outFileName, rsltName,
             Clip(MapS(Div, WtdSumArr(st, inFieldNames, weights), SumQ(weights))))

FuzzyEMDSWeighteddAnd(st, inFieldNames, weights, outFileName, rsltName) ==
    IF VerifyAll(st, inFieldNames) # "" THEN Raise(st, VerifyAll(st, inFieldNames))
    ELSE IF Len(weights) < Len(inFieldNames) THEN Raise(st, "IndexError")
    ELSE AddFieldToEEMSFlds(st, outFileName, rsltName,
             Clip(Map2(EMDSAndCell, MinArr(st, inFieldNames),
                       MapS(Div, WtdSumArr(st, inFieldNames, weights), SumQ(weights)))))

IsTruest(t)  == t \in {"Truest", "truest", "TRUEST"}
IsFalsest(t) == t \in {"Falsest", "falsest", "FALSEST"}

\* the rows of the sorted stack that myRange selects, for one cell
Selected(sorted, truestOrFalsest, numberToConsider) ==
    IF IsTruest(truestOrFalsest)
    THEN SubSeq(sorted, Len(sorted) - numberToConsider + 1, Len(sorted))
    ELSE SubSeq(sorted, 1, numberToConsider)

FuzzySelectedUnion(st, inFieldNames, truestOrFalsest, numberToConsider, outFileName, rsltName) ==
    IF VerifyAll(st, inFieldNames) # "" THEN Raise(st, VerifyAll(st, inFieldNames))
    ELSE IF Len(inFieldNames) = 1 THEN CopyField(st, inFieldNames[1], outFileName, rsltName)
    ELSE IF ~execBinds THEN Raise(st, "NameError")
    ELSE IF ~IsTruest(truestOrFalsest) /\ ~IsFalsest(truestOrFalsest)
    THEN Raise(st, "TruestOrFalsest")
    ELSE AddFieldToEEMSFlds(st, outFileName, rsltName,
             Clip([i \in Cells(st) |->
                      MeanOfSelected(Selected(SortCells(Column(st, inFieldNames, i)),
                                              truestOrFalsest, numberToConsider))]))

XOrCell_PlusOne(truest, second) ==
    IF truest = Masked THEN Masked
    ELSE IF truest = R(1) THEN R(-1)
    ELSE Sub(truest, Div(Mul(Sub(truest, second), Sub(second, R(-1))), Sub(truest, R(-1))))

\* np.ma.where(truest != -1, truest - (truest - second) * (second - -1) / (truest - -1), -1)
XOrCell(truest, second) ==
    IF truest = Masked THEN Masked
    ELSE IF truest = R(-1) THEN R(-1)
    ELSE Sub(truest, Div(Mul(Sub(truest, second), Sub(second, R(-1))), Sub(truest, R(-1))))

FuzzyXOr(st, inFieldNames, outFileName, rsltName) ==
    IF Len(inFieldNames) < 2 THEN Raise(st, "XOrNeedsTwo")
    ELSE IF VerifyAll(st, inFieldNames) # "" THEN Raise(st, VerifyAll(st, inFieldNames))
    ELSE IF ~execBinds THEN Raise(st, "NameError")
    ELSE AddFieldToEEMSFlds(st, outFileName, rsltName,
             Clip([i \in Cells(st) |->
                      LET sorted == SortCells(Column(st, inFieldNames, i))
                      IN  XOrCell(sorted[Len(sorted)], sorted[Len(sorted) - 1])]))

\* np.ma.where(cond, a, b) at a cell x of the data the condition is on
Where(x, cond, a, b) == IF x = Masked THEN Masked ELSE IF cond THEN a ELSE b

Le(x, y) == IsNum(x) /\ IsNum(y) /\ RLe(x, y)

\* the loop of CvtToFuzzyCurve over the segments ndx .. len(rawValues)-1
\* (indices from 1 here); a segment whose ends are one raw value selects no
\* cell
RECURSIVE CurveSegments(_, _, _, _, _)
CurveSegments(data, rawValues, fuzzyValues, ndx, newData) ==
    IF ndx > Len(rawValues) THEN newData
    ELSE LET m == Div(Sub(fuzzyValues[ndx], fuzzyValues[ndx - 1]),
                      Sub(rawValues[ndx], rawValues[ndx - 1]))
             b == Sub(fuzzyValues[ndx - 1], Mul(m, rawValues[ndx - 1]))
         IN  CurveSegments(data, rawValues, fuzzyValues, ndx + 1,
                 [i \in DOMAIN data |->
                     Where(data[i], Le(data[i], rawValues[ndx - 1]),
                           newData[i],
                           Where(data[i], Le(data[i], rawValues[ndx]),
                                 Add(Mul(data[i], m), b),
                                 newData[i]))])

\* newData of CvtToFuzzyCurve
CurveData(data, rawValues, fuzzyValues) ==
    LET init == [i \in DOMAIN data |->
                    Where(data[i], data[i] = NaN, NaN, R(MinForFuzzyLimit))]
        low  == [i \in DOMAIN data |->
                    Where(data[i], Le(data[i], rawValues[1]), fuzzyValues[1], init[i])]
        segs == CurveSegments(data, rawValues, fuzzyValues, 2, low)
        high == [i \in DOMAIN data |->
                    Where(data[i], Lt(rawValues[Len(rawValues)], data[i]),
                          fuzzyValues[Len(fuzzyValues)], segs[i])]
    IN  Clip(high)

CvtToFuzzyCurve(st, inFieldName, rawValues, fuzzyValues, outFileName, rsltName) ==
    IF inFieldName \notin DOMAIN st.flds THEN Raise(st, "KeyError")
    ELSE AddFieldToEEMSFlds(st, outFileName, rsltName,
             CurveData(Data(st, inFieldName), rawValues, fuzzyValues))

\* the loop of CvtToFuzzyCat over the raw values
RECURSIVE CatCell(_, _, _, _)
CatCell(x, rawValues, fuzzyValues, newCell) ==
    IF rawValues = <<>> THEN newCell
    ELSE CatCell(x, Tail(rawValues), Tail(fuzzyValues),
                 Where(x, IsNum(x) /\ x = Head(rawValues), Head(fuzzyValues), newCell))

CvtToFuzzyCat(st, inFieldName, rawValues, fuzzyValues, defaultFuzzyValue, outFileName, rsltName) ==
    IF inFieldName \notin DOMAIN st.flds THEN Raise(st, "KeyError")
    ELSE AddFieldToEEMSFlds(st, outFileName, rsltName,
             [i \in DOMAIN Data(st, inFieldName) |->
                 LET x == Data(st, inFieldName)[i]
                 IN  CatCell(x, rawValues, fuzzyValues,
                             Where(x, x = NaN, NaN, defaultFuzzyValue))])

MinFlds(st, inFieldNames, outFileName, rsltName) ==
    IF ~AllPresent(st, inFieldNames) THEN Raise(st, "KeyError")
    ELSE AddFieldToEEMSFlds(st, outFileName, rsltName, MinArr(st, inFieldNames))

\* EEMSCmdRunnerBase.MaxFlds
MaxFldsOp(st, inFieldNames, outFileName, rsltName) ==
    IF ~AllPresent(st, inFieldNames) THEN Raise(st, "KeyError")
    ELSE AddFieldToEEMSFlds(st, outFileName, rsltName, MaxArr(st, inFieldNames))

SumFlds_InPlace(st, inFieldNames, outFileName, rsltName) ==
    IF st.shape = None THEN Raise(st, "TypeError")
    ELSE IF ~AllPresent(st, inFieldNames) THEN Raise(st, "KeyError")
    ELSE LET r == AddFieldToEEMSFlds(st, outFileName, rsltName, SumArr(st, inFieldNames))
         IN  IF ~r.ok THEN r
             ELSE [r EXCEPT !.flds[inFieldNames[1]].data = SumArr(st, inFieldNames)]

\* np.ma.zeros(self.arrayShape) raises before any field is looked up when no
\* field was added yet
SumFlds(st, inFieldNames, outFileName, rsltName) ==
    IF st.shape = None THEN Raise(st, "TypeError")
    ELSE IF ~AllPresent(st, inFieldNames) THEN Raise(st, "KeyError")
    ELSE AddFieldToEEMSFlds(st, outFileName, rsltName, SumArr(st, inFieldNames))

MeanFlds(st, inFieldNames, outFileName, rsltName) ==
    IF st.shape = None THEN Raise(st, "TypeError")
    ELSE IF ~AllPresent(st, inFieldNames) THEN Raise(st, "KeyError")
    ELSE AddFieldToEEMSFlds(st, outFileName, rsltName,
             MapS(Div, SumArr(st, inFieldNames), R(Len(inFieldNames))))

WeightedSum(st, inFieldNames, weights, outFileName, rsltName) ==
    IF st.shape = None THEN Raise(st, "TypeError")
    ELSE IF ~AllPresent(st, inFieldNames) THEN Raise(st, "KeyError")
    ELSE IF Len(weights) < Len(inFieldNames) THEN Raise(st, "IndexError")
    ELSE AddFieldToEEMSFlds(st, outFileName, rsltName,
             WtdSumArr(st, inFieldNames, weights))

WeightedMean(st, inFieldNames, weights, outFileName, rsltName) ==
    IF st.shape = None THEN Raise(st, "TypeError")
    ELSE IF ~AllPresent(st, inFieldNames) THEN Raise(st, "KeyError")
    ELSE IF Len(weights) < Len(inFieldNames) THEN Raise(st, "IndexError")
    ELSE AddFieldToEEMSFlds(st, outFileName, rsltName,
             MapS(Div, WtdSumArr(st, inFieldNames, weights), SumQ(weights)))

\* (data - minValue) / (maxValue - minValue)
ScoreRangeBenefit(st, inFieldName, outFileName, rsltName) ==
    IF inFieldName \notin DOMAIN st.flds THEN Raise(st, "KeyError")
    ELSE LET data     == Data(st, inFieldName)
             minValue == ArrMin(data)
             maxValue == ArrMax(data)
         IN  AddFieldToEEMSFlds(st, outFileName, rsltName,
                 MapS(Div, MapS(Sub, data, minValue), Sub(maxValue, minValue)))

\* (maxValue - data) / (maxValue - minValue)
ScoreRangeCost(st, inFieldName, outFileName, rsltName) ==
    IF inFieldName \notin DOMAIN st.flds THEN Raise(st, "KeyError")
    ELSE LET data     == Data(st, inFieldName)
             minValue == ArrMin(data)
             maxValue == ArrMax(data)
         IN  AddFieldToEEMSFlds(st, outFileName, rsltName,
                 [i \in DOMAIN data |-> Div(Sub(maxValue, data[i]), Sub(maxValue, minValue))])

\* valArr.mean(): masked cells are skipped, a NaN cell makes the result NaN,
\* no cell to average gives masked
ArrMean(a) ==
    LET nums == SelectSeq(a, LAMBDA x : IsNum(x))
    IN  IF \E i \in 1..Len(a) : a[i] = NaN THEN NaN
        ELSE IF nums = <<>> THEN Masked
        ELSE Div(SumCells(nums), R(Len(nums)))

\* MeanToMid: the five raw anchors come from the data.  A mean, minimum or
\* maximum that comes back masked is an ndarray of no dimension, and the [0]
\* on it raises IndexError
MeanToMid(st, inFieldName, ignoreZeros, fuzzyValues, outFileName, rsltName) ==
    IF inFieldName \notin DOMAIN st.flds THEN Raise(st, "KeyError")
    ELSE LET data       == Data(st, inFieldName)
             valArr     == IF ignoreZeros THEN SelectSeq(data, LAMBDA x : x # R(0)) ELSE data
             meanVal    == ArrMean(valArr)
             lowVal     == ArrMin(valArr)
             lowMeanVal == ArrMean(SelectSeq(valArr, LAMBDA x : Lt(x, meanVal)))
             hiVal      == ArrMax(valArr)
             hiMeanVal  == ArrMean(SelectSeq(valArr, LAMBDA x : Lt(meanVal, x)))
         IN  IF Masked \in {meanVal, lowVal, lowMeanVal, hiVal, hiMeanVal}
             THEN Raise(st, "IndexError")
             ELSE CvtToFuzzyCurve(st, inFieldName,
                                  <<lowVal, lowMeanVal, meanVal, hiMeanVal, hiVal>>,
                                  fuzzyValues, outFileName, rsltName)

----------------------------------------------------------------------------
(* EEMSInterpreter *)

None_ == SV("NONE")

Str(v)  == v.s[1]
Flt(v)  == v.q[1]

BuildCmdParams_StatementWins(c, dflts, ovrs) ==
    [p \in GetOptionalParamNames(c) \cup GetParamNames(c) |->
        IF HasParam(c, p) THEN c.params[p]
        ELSE IF p \in DOMAIN dflts THEN dflts[p]
        ELSE None_]

\* cmdParams as RunProgram builds it: the loop over the optional parameters
\* of the schema, then the loop over the parameters of the statement
BuildCmdParams(c, dflts, ovrs) ==
    LET optnl == [p \in GetOptionalParamNames(c) |->
                    IF HasParam(c, p) THEN c.params[p]
                    ELSE IF p \in DOMAIN dflts THEN dflts[p]
                    ELSE None_]
        given == [p \in GetParamNames(c) |->
                    IF p \in DOMAIN ovrs THEN ovrs[p] ELSE c.params[p]]
    IN  given @@ optnl

\* the commands the if / elif chain of RunProgram has a branch for
DispatchedCmds == CmdNames

\* GetParam of a Boolean parameter
CvtBoolean(v) == Str(v) \in {"1", "True", "true", "TRUE"}

\* CallExtern(self)
CallExtern(st) == Raise(st, "NotImplemented")

\* the if / elif chain of RunProgram
Dispatch(st, file, c, cp) ==
    LET cmdNm == GetCommandName(c)
        out   == Str(cp["OutFileName"])
    IN  IF cmdNm = "READ"
        THEN Read(st, file, Str(cp["InFileName"]), Str(cp["InFieldName"]), out,
                  Str(cp["NewFieldName"]))
        ELSE IF cmdNm = "READMULTI"
        THEN ReadMulti(st, file, Str(cp["InFileName"]), cp["InFieldNames"].s, out,
                       cp["NewFieldNames"].s)
        ELSE IF cmdNm = "CVTTOFUZZY"
        THEN CvtToFuzzy(st, Str(cp["InFieldName"]), Flt(cp["TrueThreshold"]),
                        Flt(cp["FalseThreshold"]), out, GetResultName(c))
        ELSE IF cmdNm = "CVTTOFUZZYCURVE"
        THEN CvtToFuzzyCurve(st, Str(cp["InFieldName"]), cp["RawValues"].q,
                             cp["FuzzyValues"].q, out, GetResultName(c))
        ELSE IF cmdNm = "CVTTOFUZZYCAT"
        THEN CvtToFuzzyCat(st, Str(cp["InFieldName"]), cp["RawValues"].q,
                           cp["FuzzyValues"].q, Flt(cp["DefaultFuzzyValue"]), out,
                           GetResultName(c))
        ELSE IF cmdNm = "MEANTOMID"
        THEN MeanToMid(st, Str(cp["InFieldName"]), CvtBoolean(cp["IgnoreZeros"]),
                       cp["FuzzyValues"].q, out, GetResultName(c))
        ELSE IF cmdNm = "COPYFIELD"
        THEN CopyField(st, Str(cp["InFieldName"]), out, GetResultName(c))
        ELSE IF cmdNm = "NOT"
        THEN FuzzyNot(st, Str(cp["InFieldName"]), out, GetResultName(c))
        ELSE IF cmdNm = "OR"
        THEN FuzzyOr(st, cp["InFieldNames"].s, out, GetResultName(c))
        ELSE IF cmdNm = "AND"
        THEN FuzzyAnd(st, cp["InFieldNames"].s, out, GetResultName(c))
        ELSE IF cmdNm = "EMDSAND"
        THEN FuzzyEMDSAnd(st, cp["InFieldNames"].s, out, GetResultName(c))
        ELSE IF cmdNm = "ORNEG"
        THEN FuzzyOrNeg(st, cp["InFieldNames"].s, out, GetResultName(c))
        ELSE IF cmdNm = "XOR"
        THEN FuzzyXOr(st, cp["InFieldNames"].s, out, GetResultName(c))
        ELSE IF cmdNm = "SUM"
        THEN SumFlds(st, cp["InFieldNames"].s, out, GetResultName(c))
        ELSE IF cmdNm = "MIN"
        THEN MinFlds(st, cp["InFieldNames"].s, out, GetResultName(c))
        ELSE IF cmdNm = "MAX"
        THEN MaxFldsOp(st, cp["InFieldNames"].s, out, GetResultName(c))
        ELSE IF cmdNm = "MEAN"
        THEN MeanFlds(st, cp["InFieldNames"].s, out, GetResultName(c))
        ELSE IF cmdNm = "UNION"
        THEN FuzzyUnion(st, cp["InFieldNames"].s, out, GetResultName(c))
        ELSE IF cmdNm = "DIF"
        THEN DifFlds(st, Str(cp["StartingFieldName"]), Str(cp["ToSubtractFieldName"]),
                     out, GetResultName(c))
        ELSE IF cmdNm = "SELECTEDUNION"
        THEN FuzzySelectedUnion(st, cp["InFieldNames"].s, Str(cp["TruestOrFalsest"]),
                                Flt(cp["NumberToConsider"])[1], out, GetResultName(c))
        ELSE IF cmdNm = "WTDUNION"
        THEN FuzzyWeightedUnion(st, cp["InFieldNames"].s, cp["Weights"].q, out,
                                GetResultName(c))
        ELSE IF cmdNm = "WTDEMDSAND"
        THEN Raise(st, "AttributeError")
        ELSE IF cmdNm = "WTDMEAN"
        THEN WeightedMean(st, cp["InFieldNames"].s, cp["Weights"].q, out, GetResultName(c))
        ELSE IF cmdNm = "WTDSUM"
        THEN WeightedSum(st, cp["InFieldNames"].s, cp["Weights"].q, out, GetResultName(c))
        ELSE IF cmdNm = "CALLEXTERN"
        THEN Raise(st, "TypeError")
        ELSE IF cmdNm = "SCORERANGEBENEFIT"
        THEN ScoreRangeBenefit(st, Str(cp["InFieldName"]), out, GetResultName(c))
        ELSE IF cmdNm = "SCORERANGECOST"
        THEN ScoreRangeCost(st, Str(cp["InFieldName"]), out, GetResultName(c))
        ELSE Raise(st, "UnableToInterpret")

\* the field names a dispatch hands to the engine as its inputs
InputsPassed(cp) ==
    (IF "InFieldName" \in DOMAIN cp THEN cp["InFieldName"].s ELSE <<>>)
    \o (IF "InFieldNames" \in DOMAIN cp THEN cp["InFieldNames"].s ELSE <<>>)
    \o (IF "StartingFieldName" \in DOMAIN cp THEN cp["StartingFieldName"].s ELSE <<>>)
    \o (IF "ToSubtractFieldName" \in DOMAIN cp THEN cp["ToSubtractFieldName"].s ELSE <<>>)

\* the values a client hands to SetDfltOptionalParam and SetOverrideParam
DfltChoices == {<<"OutFileName", SV("dflt")>>}
OvrChoices  == {<<"OutFileName", SV("ovr")>>, <<"TrueThreshold", QV(R(50))>>,
                <<"InFieldName", SV("A")>>}

InterpreterInit_BeforeOrdered ==
    /\ pc \in {"ordering", "loaded"}
    /\ crntCmdNdx' = <<0>>
    /\ rtrn' = Rtrn("SetCrntCmdToFirst", "None")
    /\ pc' = "ready"
    /\ UNCHANGED <<prog, stmtNdx, unorderedCmds, orderedCmds, allDefinedFieldNms,
                   dpndsInOrderedCmds, sweeps, err, errCmds>>
    /\ UNCHANGED <<interpVars, engineVars>>
    /\ UNCHANGED readerVars

\* the end of EEMSInterpreter.__init__, after EEMSProgram has loaded
InterpreterInit ==
    /\ pc = "loaded"
    /\ crntCmdNdx' = <<0>>
    /\ rtrn' = Rtrn("SetCrntCmdToFirst", "None")
    /\ pc' = "ready"
    /\ UNCHANGED <<prog, stmtNdx, unorderedCmds, orderedCmds, allDefinedFieldNms,
                   dpndsInOrderedCmds, sweeps, err, errCmds>>
    /\ UNCHANGED <<interpVars, engineVars>>
    /\ UNCHANGED readerVars

SetDfltOptionalParam ==
    /\ pc = "ready"
    /\ \E kv \in DfltChoices :
          dfltOptnlParamVals' = (kv[1] :> kv[2]) @@ dfltOptnlParamVals
    /\ UNCHANGED <<progVars, pc, err, errCmds, engineVars>>
    /\ UNCHANGED <<paramOverrideVals, cmdParams, dispatched, finishCnt>>
    /\ UNCHANGED readerVars

SetOverrideParam ==
    /\ pc = "ready"
    /\ \E kv \in OvrChoices :
          paramOverrideVals' = (kv[1] :> kv[2]) @@ paramOverrideVals
    /\ UNCHANGED <<progVars, pc, err, errCmds, engineVars>>
    /\ UNCHANGED <<dfltOptnlParamVals, cmdParams, dispatched, finishCnt>>
    /\ UNCHANGED readerVars

\* one pass of the work loop of RunProgram: build the parameters, dispatch,
\* NextCmd
RunCmd ==
    /\ pc \in {"ready", "running"}
    /\ IF ~(crntCmdNdx[1] < Len(orderedCmds))
       THEN /\ pc' = "raised"
            /\ err' = "IndexError"
            /\ UNCHANGED <<crntCmdNdx, rtrn, cmdParams, dispatched, EEMSFlds, arrayShape, lastOp>>
       ELSE LET c  == GetCrntCmd
                cp == BuildCmdParams(c, dfltOptnlParamVals, paramOverrideVals)
                r  == Dispatch(EngineState, inFile, c, cp)
            IN  /\ cmdParams' = cp
                /\ dispatched' = Append(dispatched, crntCmdNdx[1])
                /\ EEMSFlds' = r.flds
                /\ arrayShape' = r.shape
                /\ lastOp' = [op |-> GetCommandName(c), ok |-> r.ok, err |-> r.err,
                              ins |-> r.ins, args |-> InputsPassed(cp), consts |-> <<>>]
                /\ IF ~r.ok
                   THEN /\ pc' = "raised"
                        /\ err' = r.err
                        /\ UNCHANGED <<crntCmdNdx, rtrn>>
                   ELSE IF PastLast(crntCmdNdx[1] + 1, Len(orderedCmds))
                   THEN /\ crntCmdNdx' = None
                        /\ rtrn' = Rtrn("NextCmd", "False")
                        /\ pc' = "finishing"
                        /\ UNCHANGED err
                   ELSE /\ crntCmdNdx' = <<crntCmdNdx[1] + 1>>
                        /\ rtrn' = Rtrn("NextCmd", "True")
                        /\ pc' = "running"
                        /\ UNCHANGED err
    /\ UNCHANGED <<prog, stmtNdx, unorderedCmds, orderedCmds, allDefinedFieldNms,
                   dpndsInOrderedCmds, sweeps, errCmds>>
    /\ UNCHANGED <<dfltOptnlParamVals, paramOverrideVals, finishCnt, inFile, execBinds>>
    /\ UNCHANGED readerVars

\* self.myCmdRunner.Finish(), after the work loop
Finish ==
    /\ pc = "finishing"
    /\ finishCnt' = finishCnt + 1
    /\ pc' = "finished"
    /\ UNCHANGED <<progVars, err, errCmds, engineVars>>
    /\ UNCHANGED <<dfltOptnlParamVals, paramOverrideVals, cmdParams, dispatched>>
    /\ UNCHANGED readerVars

----------------------------------------------------------------------------
(* A client of the engine calling its operations directly, until one raises *)

RsltNames == {"X", "Y"}
\* the names a call refers to: the fields of the registry and one that is
\* in neither the registry nor the file
EngNames  == DOMAIN EEMSFlds \cup {"Z"}
NameOrder == <<"A", "B", "X", "Y", "Z", "raw">>
Before(a, b) == \E i, j \in DOMAIN NameOrder : i < j /\ NameOrder[i] = a /\ NameOrder[j] = b
InLists   == {<<a>> : a \in EngNames}
             \cup {pr \in (DOMAIN EEMSFlds) \X (DOMAIN EEMSFlds) : Before(pr[1], pr[2])}
WeightsFor(nms) ==
    IF Len(nms) = 1 THEN {<<R(1)>>}
    ELSE {<<R(1), R(1)>>, <<R(2), R(-1)>>, <<R(-1), R(2)>>, <<R(1), R(-1)>>}
ThresholdPairs == {<<R(2), R(0)>>, <<R(0), R(0)>>,
                   <<R(MaxForFuzzyLimit), R(MinForFuzzyLimit)>>,
                   <<R(1), R(MaxForFuzzyLimit)>>}

EngineCallWith(op, args, consts, r) ==
    /\ pc = "engine"
    /\ Cardinality(DOMAIN EEMSFlds) < MaxFlds
    /\ EEMSFlds' = r.flds
    /\ arrayShape' = r.shape
    /\ lastOp' = [op |-> op, ok |-> r.ok, err |-> r.err, ins |-> r.ins, args |-> args,
                  consts |-> consts]
    /\ pc' = IF r.ok THEN "engine" ELSE "raised"
    /\ err' = r.err
    /\ UNCHANGED <<progVars, errCmds, interpVars, inFile, execBinds>>
    /\ UNCHANGED readerVars

EngineCall(op, args, r) == EngineCallWith(op, args, <<>>, r)

Call_Read ==
    \E f \in DOMAIN inFile \cup {"Z"} :
        EngineCall("Read", <<f>>, Read(EngineState, inFile, "in", f, "NONE", "NONE"))

Call_CvtToFuzzy ==
    \E f \in EngNames, t \in ThresholdPairs, rs \in RsltNames :
        EngineCallWith("CvtToFuzzy", <<f>>, t, CvtToFuzzy(EngineState, f, t[1], t[2], "NONE", rs))

Call_CopyField ==
    \E f \in EngNames, rs \in RsltNames :
        EngineCall("CopyField", <<f>>, CopyField(EngineState, f, "NONE", rs))

Call_FuzzyNot ==
    \E f \in EngNames, rs \in RsltNames :
        EngineCall("FuzzyNot", <<f>>, FuzzyNot(EngineState, f, "NONE", rs))

Call_FuzzyOr ==
    \E fs \in InLists, rs \in RsltNames :
        EngineCall("FuzzyOr", fs, FuzzyOr(EngineState, fs, "NONE", rs))

Call_FuzzyAnd ==
    \E fs \in InLists, rs \in RsltNames :
        EngineCall("FuzzyAnd", fs, FuzzyAnd(EngineState, fs, "NONE", rs))

Call_FuzzyOrNeg ==
    \E fs \in InLists, rs \in RsltNames :
        EngineCall("FuzzyOrNeg", fs, FuzzyOrNeg(EngineState, fs, "NONE", rs))

Call_FuzzyUnion ==
    \E fs \in InLists, rs \in RsltNames :
        EngineCall("FuzzyUnion", fs, FuzzyUnion(EngineState, fs, "NONE", rs))

Call_FuzzyEMDSAnd ==
    \E fs \in InLists, rs \in RsltNames :
        EngineCall("FuzzyEMDSAnd", fs, FuzzyEMDSAnd(EngineState, fs, "NONE", rs))

Call_FuzzyWeightedUnion ==
    \E fs \in InLists, rs \in RsltNames : \E w \in WeightsFor(fs) :
        EngineCall("FuzzyWeightedUnion", fs,
                   FuzzyWeightedUnion(EngineState, fs, w, "NONE", rs))

Call_FuzzyEMDSWeighteddAnd ==
    \E fs \in InLists, rs \in RsltNames : \E w \in WeightsFor(fs) :
        EngineCall("FuzzyEMDSWeighteddAnd", fs,
                   FuzzyEMDSWeighteddAnd(EngineState, fs, w, "NONE", rs))

Call_FuzzySelectedUnion ==
    \E fs \in InLists, rs \in RsltNames, t \in {"Truest", "Falsest"} :
        \E n \in 1..Len(fs) :
            EngineCall("FuzzySelectedUnion", fs,
                       FuzzySelectedUnion(EngineState, fs, t, n, "NONE", rs))

Call_FuzzyXOr ==
    \E fs \in InLists, rs \in RsltNames :
        EngineCall("FuzzyXOr", fs, FuzzyXOr(EngineState, fs, "NONE", rs))

Call_DifFlds ==
    \E fs \in InLists, rs \in RsltNames :
        /\ Len(fs) = 2
        /\ EngineCall("DifFlds", fs, DifFlds(EngineState, fs[1], fs[2], "NONE", rs))

Call_MinFlds ==
    \E fs \in InLists, rs \in RsltNames :
        EngineCall("MinFlds", fs, MinFlds(EngineState, fs, "NONE", rs))

Call_MaxFlds ==
    \E fs \in InLists, rs \in RsltNames :
        EngineCall("MaxFlds", fs, MaxFldsOp(EngineState, fs, "NONE", rs))

Call_SumFlds ==
    \E fs \in InLists, rs \in RsltNames :
        EngineCall("SumFlds", fs, SumFlds(EngineState, fs, "NONE", rs))

Call_MeanFlds ==
    \E fs \in InLists, rs \in RsltNames :
        EngineCall("MeanFlds", fs, MeanFlds(EngineState, fs, "NONE", rs))

Call_WeightedMean ==
    \E fs \in InLists, rs \in RsltNames : \E w \in WeightsFor(fs) :
        EngineCall("WeightedMean", fs, WeightedMean(EngineState, fs, w, "NONE", rs))

Call_WeightedSum ==
    \E fs \in InLists, rs \in RsltNames : \E w \in WeightsFor(fs) :
        EngineCall("WeightedSum", fs, WeightedSum(EngineState, fs, w, "NONE", rs))

Call_ScoreRangeBenefit ==
    \E f \in EngNames, rs \in RsltNames :
        EngineCall("ScoreRangeBenefit", <<f>>, ScoreRangeBenefit(EngineState, f, "NONE", rs))

Call_ScoreRangeCost ==
    \E f \in EngNames, rs \in RsltNames :
        EngineCall("ScoreRangeCost", <<f>>, ScoreRangeCost(EngineState, f, "NONE", rs))

Call_CvtToFuzzyCurve ==
    \E f \in EngNames, rs \in RsltNames :
        EngineCall("CvtToFuzzyCurve", <<f>>,
                   CvtToFuzzyCurve(EngineState, f, <<R(-1), R(0), R(1)>>,
                                   <<R(1), R(-1), Q(1, 2)>>, "NONE", rs))

Call_CvtToFuzzyCat ==
    \E f \in EngNames, rs \in RsltNames :
        EngineCall("CvtToFuzzyCat", <<f>>,
                   CvtToFuzzyCat(EngineState, f, <<R(-1), R(1)>>, <<R(1), Q(1, 2)>>,
                                 R(0), "NONE", rs))

Call_MeanToMid ==
    \E f \in EngNames, rs \in RsltNames, ignoreZeros \in BOOLEAN :
        EngineCall("MeanToMid", <<f>>,
                   MeanToMid(EngineState, f, ignoreZeros,
                             <<R(-1), Q(-1, 2), R(0), Q(1, 2), R(1)>>, "NONE", rs))

----------------------------------------------------------------------------
(* The loader and its cursor, driven by a client of EEMSProgram *)

NoFlds == [x \in {} |-> [outFNm |-> "", data |-> <<>>]]
NoDefs == [x \in {} |-> S_ReadRaw]
NoVals == [x \in {} |-> SV("")]
NoOp   == [op |-> "", ok |-> TRUE, err |-> "", ins |-> <<>>, args |-> <<>>, consts |-> <<>>]

\* what the input file "in" may hold
File1 == ("raw" :> <<R(0), R(50), R(100)>>) @@ ("A" :> <<R(-1), R(0), R(1)>>)
         @@ ("B" :> <<R(1), Q(-1, 2), Masked>>)
File2 == ("raw" :> <<R(0), R(50), R(100)>>) @@ ("A" :> <<R(-1), R(1)>>)
         @@ ("B" :> <<R(1), R(-1)>>)
File3 == ("raw" :> <<R(0), R(50), R(100)>>) @@ ("A" :> <<R(-1), R(0), NaN>>)
Files == {File1, File2, File3}

\* the locals of EEMSProgram.__init__ before the first line is read
InitReader ==
    /\ inLineCnt = 0
    /\ cmdLine = <<>>
    /\ inParens = FALSE
    /\ parenCnt = 0
    /\ cmdStartLineNum = None
    /\ cmdStrs = <<>>
    /\ errLineNum = None

InitProgram ==
    /\ inLines = <<>>
    /\ InitReader
    /\ stmtNdx = 0
    /\ unorderedCmds = <<>>
    /\ orderedCmds = <<>>
    /\ allDefinedFieldNms = NoDefs
    /\ dpndsInOrderedCmds = <<>>
    /\ crntCmdNdx = None
    /\ pc = "reading"
    /\ err = ""
    /\ errCmds = <<>>
    /\ sweeps = 0
    /\ rtrn = Rtrn("", "None")

InitInterp ==
    /\ dfltOptnlParamVals = NoVals
    /\ paramOverrideVals = NoVals
    /\ cmdParams = NoVals
    /\ dispatched = <<>>
    /\ finishCnt = 0

InitEngine ==
    /\ EEMSFlds = NoFlds
    /\ arrayShape = None
    /\ lastOp = NoOp

Init ==
    /\ prog \in Programs
    /\ InitProgram
    /\ InitInterp
    /\ InitEngine
    /\ inFile = NoFlds
    /\ execBinds = TRUE

Next == AddCmd \/ CheckDepends \/ Sweep \/ NextCmd \/ PrevCmd \/ SetCrntCmdToFirst

Spec == Init /\ [][Next]_vars

\* the constructor runs to its end: its loops are not abandoned half way
SpecLoad ==
    Init /\ [][Next]_vars /\ WF_vars(AddCmd) /\ WF_vars(CheckDepends) /\ WF_vars(Sweep)

\* a fresh interpreter: construction, configuration, RunProgram
InitRun ==
    /\ prog \in Programs
    /\ InitProgram
    /\ InitInterp
    /\ InitEngine
    /\ inFile \in Files
    /\ execBinds \in BOOLEAN

NextRun ==
    \/ AddCmd \/ CheckDepends \/ Sweep \/ InterpreterInit
    \/ SetDfltOptionalParam \/ SetOverrideParam \/ RunCmd \/ Finish

SpecRun == InitRun /\ [][NextRun]_vars

\* CALLEXTERN written with parameters its description does not name
ExternStmts ==
    {Stmt(<<"W">>, "CALLEXTERN", ValidParams("CALLEXTERN") @@ extra) :
        extra \in {"Extra" :> SV("x"), "Weights" :> SV("x"), "InFileName" :> LV(<<"A">>)}}

\* a command file of two statements: a READMULTI of A and B, then a
\* generated statement

\* CVTTOFUZZYCAT written with default values on both sides of the fuzzy range
CatStmts ==
    {Stmt(<<"W">>, "CVTTOFUZZYCAT",
          InA @@ ("RawValues" :> QL(<<R(1)>>)) @@ ("FuzzyValues" :> QL(<<Q(1, 2)>>))
              @@ ("DefaultFuzzyValue" :> QV(dflt))) : dflt \in {R(-1), R(5)}}

\* SELECTEDUNION over ten fields
ManyFlds == 10
ManySelectedStmts ==
    {Stmt(<<"W">>, "SELECTEDUNION",
          ("InFieldNames" :> LV(NmList(ManyFlds))) @@ ("TruestOrFalsest" :> SV("Truest"))
              @@ ("NumberToConsider" :> QV(n))) :
        n \in {R(ManyFlds - 1), R(ManyFlds), R(ManyFlds + 1), Q(3, 2)}}

CmdStmts ==
    WeightedStmts \cup SelectedStmts \cup KindStmts \cup ExternStmts \cup CatStmts
        \cup ManySelectedStmts
CmdPrograms == {<<S_ReadMulti, st>> : st \in CmdStmts}

InitKinds ==
    /\ prog \in CmdPrograms
    /\ InitProgram
    /\ InitInterp
    /\ InitEngine
    /\ inFile \in Files
    /\ execBinds \in BOOLEAN

NextKinds == AddCmd \/ CheckDepends \/ Sweep

SpecKinds == InitKinds /\ [][NextKinds]_vars

\* a command file of two statements run by the interpreter: a READMULTI of
\* A and B, then a statement that construction accepts
File4 == ("A" :> <<R(-1), R(2), R(0)>>) @@ ("B" :> <<R(1), R(0), R(-1)>>)
File5 == ("A" :> <<R(2), NaN, R(0)>>) @@ ("B" :> <<R(1), R(0), R(-1)>>)
File6 == ("A" :> <<R(1), R(1), R(1)>>) @@ ("B" :> <<R(-1), R(0), NaN>>)
DispatchFiles == Files \cup {File4, File5, File6}

DispatchStmts    == {st \in CmdStmts : HasResultName(st) /\ ValidateCmd(st) = "ok"}
DispatchPrograms == {<<S_ReadMulti, st>> : st \in DispatchStmts}

InitDispatch ==
    /\ prog \in DispatchPrograms
    /\ InitProgram
    /\ InitInterp
    /\ InitEngine
    /\ inFile \in DispatchFiles
    /\ execBinds \in BOOLEAN

NextDispatch == AddCmd \/ CheckDepends \/ Sweep \/ InterpreterInit \/ RunCmd \/ Finish

SpecDispatch == InitDispatch /\ [][NextDispatch]_vars

\* the lines a command file is made of
L_Blank    == <<>>
L_Comment  == <<" ", "#", "(", "note">>
L_ReadRaw  == T_ReadRaw \o <<" ", "#", "note">>
L_ReadAsA  == <<" ">> \o T_ReadAsA
L_NotB     == T_NotB
L_Open     == <<"READ", "(">>
L_Params   == <<" ", P_Raw>>
L_Close    == <<")">>
L_Head     == <<"B", " ", "=", " ", "NOT">>
L_Rest     == <<"(", P_A, ")">>
L_Extra    == T_ReadRaw \o <<"junk">>
L_Junk     == <<"%junk">>
Lines == {L_Blank, L_Comment, L_ReadRaw, L_ReadAsA, L_NotB, L_Open, L_Params, L_Close,
          L_Head, L_Rest, L_Extra, L_Junk}

Texts == UNION {[1..n -> Lines] : n \in 1..MaxLines}

\* a load from the text of a command file
InitText ==
    /\ inLines \in Texts
    /\ InitReader
    /\ prog = <<>>
    /\ stmtNdx = 0
    /\ unorderedCmds = <<>>
    /\ orderedCmds = <<>>
    /\ allDefinedFieldNms = NoDefs
    /\ dpndsInOrderedCmds = <<>>
    /\ crntCmdNdx = None
    /\ pc = "reading"
    /\ err = ""
    /\ errCmds = <<>>
    /\ sweeps = 0
    /\ rtrn = Rtrn("", "None")
    /\ InitInterp
    /\ InitEngine
    /\ inFile = File1
    /\ execBinds = FALSE

NextText == ReadLine \/ EndOfFile \/ Sweep

SpecText == InitText /\ [][NextText]_vars

\* an engine of its own, its operations called in any order
InitEng ==
    /\ prog = <<>>
    /\ inLines = <<>>
    /\ InitReader
    /\ stmtNdx = 0
    /\ unorderedCmds = <<>>
    /\ orderedCmds = <<>>
    /\ allDefinedFieldNms = NoDefs
    /\ dpndsInOrderedCmds = <<>>
    /\ crntCmdNdx = None
    /\ pc = "engine"
    /\ err = ""
    /\ errCmds = <<>>
    /\ sweeps = 0
    /\ rtrn = Rtrn("", "None")
    /\ InitInterp
    /\ InitEngine
    /\ inFile \in Files
    /\ execBinds \in BOOLEAN

NextEng ==
    \/ Call_Read \/ Call_CvtToFuzzy \/ Call_CopyField \/ Call_FuzzyNot
    \/ Call_FuzzyOr \/ Call_FuzzyAnd \/ Call_FuzzyOrNeg \/ Call_FuzzyUnion
    \/ Call_FuzzyEMDSAnd \/ Call_FuzzyWeightedUnion \/ Call_FuzzyEMDSWeighteddAnd
    \/ Call_FuzzySelectedUnion \/ Call_FuzzyXOr

SpecEngine == InitEng /\ [][NextEng]_vars

\* a client of the engine that has read A and B from its file and calls the
\* operators on the registry
AfterRead(file) ==
    ReadMulti([flds |-> NoFlds, shape |-> None], file, "in", <<"A", "B">>, "NONE", <<"NONE">>)

InitOps ==
    /\ prog = <<>>
    /\ inLines = <<>>
    /\ InitReader
    /\ stmtNdx = 0
    /\ unorderedCmds = <<>>
    /\ orderedCmds = <<>>
    /\ allDefinedFieldNms = NoDefs
    /\ dpndsInOrderedCmds = <<>>
    /\ crntCmdNdx = None
    /\ pc = "engine"
    /\ err = ""
    /\ errCmds = <<>>
    /\ sweeps = 0
    /\ rtrn = Rtrn("", "None")
    /\ InitInterp
    /\ inFile \in {f \in DispatchFiles : AfterRead(f).ok}
    /\ EEMSFlds = AfterRead(inFile).flds
    /\ arrayShape = AfterRead(inFile).shape
    /\ lastOp = [op |-> "ReadMulti", ok |-> TRUE, err |-> "", ins |-> AfterRead(inFile).ins,
                 args |-> <<"A", "B">>, consts |-> <<>>]
    /\ execBinds \in BOOLEAN

NextOps ==
    \/ Call_CvtToFuzzy \/ Call_CvtToFuzzyCurve \/ Call_CvtToFuzzyCat \/ Call_MeanToMid
    \/ Call_CopyField \/ Call_DifFlds \/ Call_MinFlds \/ Call_MaxFlds \/ Call_SumFlds
    \/ Call_MeanFlds \/ Call_WeightedMean \/ Call_WeightedSum
    \/ Call_ScoreRangeBenefit \/ Call_ScoreRangeCost
    \/ Call_FuzzyNot \/ Call_FuzzyOr \/ Call_FuzzyAnd \/ Call_FuzzyOrNeg \/ Call_FuzzyUnion
    \/ Call_FuzzyEMDSAnd \/ Call_FuzzyWeightedUnion \/ Call_FuzzyEMDSWeighteddAnd
    \/ Call_FuzzySelectedUnion \/ Call_FuzzyXOr

SpecOps == InitOps /\ [][NextOps]_vars

\* an engine holding one field of float64 cells, CvtToFuzzyCurve called on it
\* with ascending anchors
RawAnchors   == <<FInt(0), FDec(1, 10), FInt(1), FInt(3)>>
FuzzyAnchors == {FInt(-1), FDec(3, 10), FDec(9, 10)}
CurveCells   == <<FInt(-2), FInt(0), FDec(1, 10), FDec(1, 2), FInt(1), FInt(2),
                  FInt(3), FInt(5), FNaN, FMasked>>

Ascending(n) ==
    {[i \in 1..n |-> RawAnchors[ix[i]]] :
        ix \in {s \in [1..n -> DOMAIN RawAnchors] : \A i \in 1..(n - 1) : s[i] < s[i + 1]}}

\* the anchors of the call are the parameters of the command being run
InitCurve ==
    /\ prog = <<>>
    /\ inLines = <<>>
    /\ InitReader
    /\ stmtNdx = 0
    /\ unorderedCmds = <<>>
    /\ orderedCmds = <<>>
    /\ allDefinedFieldNms = NoDefs
    /\ dpndsInOrderedCmds = <<>>
    /\ crntCmdNdx = None
    /\ pc = "engine"
    /\ err = ""
    /\ errCmds = <<>>
    /\ sweeps = 0
    /\ rtrn = Rtrn("", "None")
    /\ dfltOptnlParamVals = NoVals
    /\ paramOverrideVals = NoVals
    /\ \E n \in 2..MaxLen : \E r \in Ascending(n) : \E f \in [1..n -> FuzzyAnchors] :
          cmdParams = ("RawValues" :> r) @@ ("FuzzyValues" :> f)
    /\ dispatched = <<>>
    /\ finishCnt = 0
    /\ EEMSFlds = ("A" :> [outFNm |-> "NONE", data |-> CurveCells])
    /\ arrayShape = <<Len(CurveCells)>>
    /\ lastOp = NoOp
    /\ inFile = File1
    /\ execBinds = FALSE

Call_CvtToFuzzyCurve64 ==
    \E f \in EngNames, rs \in RsltNames :
        EngineCall("CvtToFuzzyCurve", <<f>>,
                   CvtToFuzzyCurve64(EngineState, f, cmdParams["RawValues"],
                                     cmdParams["FuzzyValues"], "NONE", rs))

NextCurve == Call_CvtToFuzzyCurve64

SpecCurve == InitCurve /\ [][NextCurve]_vars

----------------------------------------------------------------------------
(* Properties of the loader and the cursor *)

\* the field names a command defines
DefinedFlds(cmd) ==
    IF HasResultName(cmd) THEN {GetResultName(cmd)}
    ELSE IF IsReadCmd(cmd) THEN Range(GetReadFieldNms(cmd))
    ELSE {}

\* the commands the loader holds, ordered or not
LoadedCmds == Range(orderedCmds) \cup Range(unorderedCmds)

LoadEnded == pc \in {"loaded", "failed"}

\* every statement of the command file became a command of the program
AllAccepted == stmtNdx = Len(prog) /\ Len(orderedCmds) + Len(unorderedCmds) = Len(prog)

DependsOn(c, d) == \E f \in Range(GetDependFieldNms(c)) : f \in DefinedFlds(d)

RECURSIVE ReachedIn(_, _, _)
ReachedIn(n, from, cmds) ==
    IF n = 0 THEN from
    ELSE ReachedIn(n - 1, from \cup {d \in cmds : \E c \in from : DependsOn(c, d)}, cmds)

\* the commands of cmds that lie on a dependency cycle
OnCycle(cmds) ==
    {c \in cmds : c \in ReachedIn(Cardinality(cmds), {d \in cmds : DependsOn(c, d)}, cmds)}

\* C1: after a successful load, whatever the declaration order, the command
\* that defines a field a command depends on sits strictly earlier in
\* orderedCmds than that command.
C1_DependenciesFirst ==
    pc = "loaded" =>
        \A k \in 1..Len(orderedCmds) :
            \A f \in Range(GetDependFieldNms(orderedCmds[k])) :
                \E j \in 1..(k - 1) :
                    /\ orderedCmds[j] = allDefinedFieldNms[f]
                    /\ f \in DefinedFlds(orderedCmds[j])

\* a chain of three commands declared in the reverse of its dependency order
C1_Witness ==
    /\ pc = "loaded"
    /\ prog = <<S_NotC, S_CvtB, S_ReadAsA>>
    /\ orderedCmds = <<S_ReadAsA, S_CvtB, S_NotC>>

\* C2 (as stated): whenever the loaded commands contain a dependency cycle,
\* load fails with the circular-logic error, which lists every command then
\* unordered, among them every command on the cycle.
C2_CycleAlwaysReported ==
    (LoadEnded /\ AllAccepted /\ OnCycle(LoadedCmds) # {}) =>
        /\ pc = "failed"
        /\ err = "CircularLogic"
        /\ errCmds = unorderedCmds
        /\ OnCycle(LoadedCmds) \subseteq Range(errCmds)

\* C2 (amended): whenever the loaded commands contain a dependency cycle and
\* every field name they reference is defined by some command, load fails
\* with the circular-logic error, which lists every command then unordered,
\* among them every command on the cycle.
C2_CycleReported ==
    (/\ LoadEnded /\ AllAccepted /\ OnCycle(LoadedCmds) # {}
     /\ \A c \in LoadedCmds : Range(GetDependFieldNms(c)) \subseteq DOMAIN allDefinedFieldNms) =>
        /\ pc = "failed"
        /\ err = "CircularLogic"
        /\ errCmds = unorderedCmds
        /\ OnCycle(LoadedCmds) \subseteq Range(errCmds)

\* a two-command cycle reported after a read was ordered
C2_Witness ==
    /\ pc = "failed"
    /\ err = "CircularLogic"
    /\ Range(errCmds) = {S_OrD, S_OrE}
    /\ Len(orderedCmds) = 1

\* C3: when every statement was accepted and some non-read command references
\* a field name no command of the program defines, load fails with the
\* undefined-field error naming the first such command, before any command is
\* moved to the ordered list, and not with the cycle error; when every
\* referenced name is defined somewhere, earlier or later in the text, load
\* does not fail with the undefined-field error.
C3_UndefinedBeforeOrdering ==
    LET undef == {c \in LoadedCmds :
                     ~IsReadCmd(c) /\ \E f \in Range(GetDependFieldNms(c)) :
                                          \A d \in LoadedCmds : f \notin DefinedFlds(d)}
    IN  (LoadEnded /\ AllAccepted) =>
            IF undef # {}
            THEN /\ pc = "failed"
                 /\ err = "UndefinedField"
                 /\ Len(errCmds) = 1
                 /\ errCmds[1] \in undef
                 /\ \E k \in 1..Len(unorderedCmds) :
                       /\ unorderedCmds[k] = errCmds[1]
                       /\ \A j \in 1..(k - 1) : unorderedCmds[j] \notin undef
                 /\ orderedCmds = <<>>
                 /\ sweeps = 0
            ELSE err # "UndefinedField"

\* an undefined reference reported although the commands also hold a cycle
C3_Witness ==
    /\ pc = "failed"
    /\ err = "UndefinedField"
    /\ errCmds = <<S_OrUndef>>
    /\ S_AndSelf \in Range(unorderedCmds)
    /\ orderedCmds = <<>>

\* the field names statement k of the command file defines, as a sequence
DefSeq(k) ==
    IF HasResultName(prog[k]) THEN prog[k].rslt
    ELSE IF IsReadCmd(prog[k]) THEN GetReadFieldNms(prog[k])
    ELSE <<>>

\* statement k defines a name an earlier statement defines, or defines a
\* name twice
Redefines(k) ==
    \/ \E i \in DOMAIN DefSeq(k) : \E j \in 1..(k - 1) : DefSeq(k)[i] \in Range(DefSeq(j))
    \/ \E i, j \in DOMAIN DefSeq(k) : i < j /\ DefSeq(k)[i] = DefSeq(k)[j]

\* C4: load fails with the duplicate-definition error at the first valid
\* statement that defines a field name already defined by an earlier
\* statement or earlier in its own READMULTI list; after a successful load
\* every field name is defined by exactly one command, the one
\* allDefinedFieldNms maps it to.
C4_DuplicateDefinition ==
    /\ \A k \in 1..stmtNdx :
          (ValidateCmd(prog[k]) = "ok" /\ Redefines(k)) =>
              (pc = "failed" /\ err = "DuplicateDefinition" /\ stmtNdx = k
               /\ errCmds[1] = prog[k])
    /\ pc = "loaded" =>
          /\ \A i, j \in 1..Len(orderedCmds) :
                i # j => DefinedFlds(orderedCmds[i]) \cap DefinedFlds(orderedCmds[j]) = {}
          /\ \A i \in 1..Len(orderedCmds) :
                Cardinality(DefinedFlds(orderedCmds[i])) =
                    IF IsReadCmd(orderedCmds[i]) THEN Len(GetReadFieldNms(orderedCmds[i])) ELSE 1
          /\ \A f \in DOMAIN allDefinedFieldNms :
                /\ allDefinedFieldNms[f] \in Range(orderedCmds)
                /\ f \in DefinedFlds(allDefinedFieldNms[f])
          /\ \A i \in 1..Len(orderedCmds) :
                DefinedFlds(orderedCmds[i]) \subseteq DOMAIN allDefinedFieldNms

\* a READMULTI rejected for naming the same field twice in its own list
C4_Witness ==
    /\ pc = "failed"
    /\ err = "DuplicateDefinition"
    /\ stmtNdx = 2
    /\ prog[2] = S_ReadTwice
    /\ errCmds = <<S_ReadTwice, S_ReadTwice>>

\* C7: the step that completes a load puts the cursor on the first ordered
\* command; NextCmd on a command that has a successor returns true and moves
\* the cursor one forward, on the last command it returns false and sets the
\* cursor to None; PrevCmd does the same backwards, returning false and
\* setting None on the first command; SetCrntCmdToFirst puts the cursor on
\* the first command whatever it was.
C7_Cursor ==
    [][ /\ (pc = "ordering" /\ pc' = "loaded") =>
               (crntCmdNdx' = <<0>> /\ Len(orderedCmds') = Len(prog))
        /\ (pc = "loaded" /\ pc' = "loaded" /\ crntCmdNdx # None /\ rtrn'.op = "NextCmd") =>
               IF crntCmdNdx[1] + 1 <= Len(orderedCmds) - 1
               THEN rtrn'.val = "True" /\ crntCmdNdx' = <<crntCmdNdx[1] + 1>>
               ELSE rtrn'.val = "False" /\ crntCmdNdx' = None
        /\ (pc = "loaded" /\ pc' = "loaded" /\ crntCmdNdx # None /\ rtrn'.op = "PrevCmd") =>
               IF crntCmdNdx[1] >= 1
               THEN rtrn'.val = "True" /\ crntCmdNdx' = <<crntCmdNdx[1] - 1>>
               ELSE rtrn'.val = "False" /\ crntCmdNdx' = None
        /\ (pc = "loaded" /\ pc' = "loaded" /\ rtrn'.op = "SetCrntCmdToFirst") =>
               crntCmdNdx' = <<0>>
      ]_vars

\* NextCmd has just returned false on the last of three commands
C7_Witness ==
    /\ pc = "loaded"
    /\ Len(orderedCmds) = 3
    /\ rtrn = Rtrn("NextCmd", "False")
    /\ crntCmdNdx = None

----------------------------------------------------------------------------
(* Properties of the interpreter *)

\* the command of the last dispatch
LastDispatched == orderedCmds[dispatched[Len(dispatched)] + 1]

RunEnded == pc \in {"finishing", "finished"}

C5_State ==
    /\ dispatched = [i \in 1..Len(dispatched) |-> i - 1]
    /\ Len(dispatched) <= Len(orderedCmds)
    /\ finishCnt <= 1
    /\ (finishCnt = 1 <=> pc = "finished")
    /\ (RunEnded => Len(dispatched) = Len(orderedCmds) /\ lastOp.ok)
    /\ (pc = "running" => Len(dispatched) < Len(orderedCmds) /\ lastOp.ok
                          /\ crntCmdNdx = <<Len(dispatched)>>)
    /\ (pc = "raised" => Len(dispatched) > 0 /\ ~lastOp.ok /\ finishCnt = 0)

C5_Step ==
    /\ pc = "raised" => dispatched' = dispatched /\ finishCnt' = finishCnt
    /\ finishCnt' # finishCnt => pc = "finishing" /\ dispatched' = dispatched
    /\ dispatched' # dispatched => finishCnt = 0 /\ finishCnt' = 0

\* C5: RunProgram on a fresh interpreter dispatches the ordered commands at
\* positions 0,1,...,n-1 in that order, each once, and calls Finish once,
\* after the last of them; when a dispatch raises, nothing is dispatched
\* after it and Finish is not called.
C5_RunProgram == [](C5_State) /\ [][C5_Step]_vars

C5_Witness ==
    /\ pc = "finished"
    /\ dispatched = <<0, 1, 2>>
    /\ finishCnt = 1

C5_RaisedWitness ==
    /\ pc = "raised"
    /\ Len(dispatched) = 2
    /\ Len(orderedCmds) = 3
    /\ finishCnt = 0

SchemaParams(c) == GetRequiredParamNames(c) \cup GetOptionalParamNames(c)

\* C6 as stated: every parameter of the schema of an executed command that
\* is a key of the override map is passed to the engine with the override
\* value, also when the statement omits it.
C6_OverrideAlways ==
    Len(dispatched) > 0 =>
        \A p \in SchemaParams(LastDispatched) \cap DOMAIN paramOverrideVals :
            cmdParams[p] = paramOverrideVals[p]

\* C6: every parameter the statement of an executed command gives, required
\* or optional, is passed with the override value when the override map has
\* its name and with the statement's value otherwise; an optional parameter
\* the statement omits is passed with the configured default, or 'NONE' when
\* there is none, whatever the override map holds.
C6_OverrideGiven ==
    Len(dispatched) > 0 =>
        /\ DOMAIN cmdParams = GetParamNames(LastDispatched)
                                  \cup GetOptionalParamNames(LastDispatched)
        /\ \A p \in DOMAIN cmdParams :
              cmdParams[p] =
                  IF HasParam(LastDispatched, p)
                  THEN IF p \in DOMAIN paramOverrideVals
                       THEN paramOverrideVals[p]
                       ELSE LastDispatched.params[p]
                  ELSE IF p \in DOMAIN dfltOptnlParamVals
                  THEN dfltOptnlParamVals[p]
                  ELSE None_

C6_Witness ==
    /\ Len(dispatched) > 0
    /\ LastDispatched = S_NotCOut
    /\ "OutFileName" \in DOMAIN paramOverrideVals
    /\ "OutFileName" \in DOMAIN dfltOptnlParamVals
    /\ cmdParams["OutFileName"] = SV("ovr")

C6_OmittedWitness ==
    /\ Len(dispatched) > 0
    /\ LastDispatched = S_NotC
    /\ "OutFileName" \in DOMAIN paramOverrideVals
    /\ cmdParams["OutFileName"] = None_

P10_AsWritten == <<S_RsltRead, S_CvtB, S_NotC>>
P10_Read      == <<S_ReadAsA, S_CvtB, S_NotC>>

Raw10 == <<R(0), R(50), R(100)>>

\* C10 as stated: the program whose first statement is A = READ(...) loads,
\* is ordered as written and gives B = [-1,0,1] and C = [1,0,-1].
C10_AsWritten ==
    prog = P10_AsWritten =>
        /\ pc # "failed"
        /\ (pc = "finished" =>
               /\ orderedCmds = P10_AsWritten
               /\ EEMSFlds["B"].data = <<R(-1), R(0), R(1)>>
               /\ EEMSFlds["C"].data = <<R(1), R(0), R(-1)>>)

\* C10: the program as written is rejected at its first statement, because
\* READ takes no result name.  With the first statement written
\* READ(InFileName=in,InFieldName=raw,NewFieldName=A) the program loads, is
\* ordered [READ, B, C], and, with no override configured, over
\* raw = [0,50,100] runs to the end with A = [0,50,100], B = [-1,0,1] and
\* C = [1,0,-1].
C10_EndToEnd ==
    /\ prog = P10_AsWritten =>
          \/ pc = "reading" /\ stmtNdx = 0
          \/ pc = "failed" /\ err = "CommandDoesNotUseResult" /\ orderedCmds = <<>>
    /\ prog = P10_Read =>
          /\ pc # "failed"
          /\ (pc \notin {"reading", "ordering"} => orderedCmds = P10_Read)
          /\ (paramOverrideVals = NoVals /\ inFile["raw"] = Raw10 =>
                /\ pc # "raised"
                /\ (pc = "finished" =>
                      /\ DOMAIN EEMSFlds = {"A", "B", "C"}
                      /\ EEMSFlds["A"].data = Raw10
                      /\ EEMSFlds["B"].data = <<R(-1), R(0), R(1)>>
                      /\ EEMSFlds["C"].data = <<R(1), R(0), R(-1)>>))

C10_Witness ==
    /\ prog = P10_Read
    /\ paramOverrideVals = NoVals
    /\ pc = "finished"
    /\ EEMSFlds["C"].data = <<R(1), R(0), R(-1)>>

C10_RejectedWitness ==
    /\ prog = P10_AsWritten
    /\ pc = "failed"

----------------------------------------------------------------------------
(* Properties of the engine *)

ShapeOf(a) == <<Len(a)>>

C8_State ==
    /\ \A f \in DOMAIN EEMSFlds : ShapeOf(EEMSFlds[f].data) = arrayShape
    /\ (arrayShape = None <=> EEMSFlds = NoFlds)

C8_Step ==
    /\ arrayShape # None => arrayShape' = arrayShape
    /\ arrayShape = None /\ arrayShape' # None =>
          /\ lastOp'.ins # <<>>
          /\ lastOp'.ok
          /\ arrayShape' = lastOp'.ins[1].shape
    /\ lastOp'.ins # <<>> /\ (\/ lastOp'.ins[1].name \in DOMAIN EEMSFlds
                              \/ arrayShape # None /\ lastOp'.ins[1].shape # arrayShape) =>
          /\ ~lastOp'.ok
          /\ EEMSFlds' = EEMSFlds

\* C8: in every state of the engine all fields of the registry have the
\* remembered shape; the remembered shape is set by the first insertion and
\* never changes; an insertion under a name the registry already has, or of
\* an array of another shape, raises and leaves the registry as it was.
C8_OneShape == [](C8_State) /\ [][C8_Step]_vars

C8_Witness ==
    /\ lastOp.err = "DataShapeMismatch"
    /\ lastOp.ins # <<>>
    /\ arrayShape # None
    /\ lastOp.ins[1].shape # arrayShape
    /\ EEMSFlds # NoFlds

C8_DuplicateWitness ==
    /\ ~lastOp.ok
    /\ lastOp.ins # <<>>
    /\ lastOp.ins[1].name \in DOMAIN EEMSFlds
    /\ lastOp.ins[1].shape = arrayShape

FuzzyOps == {"FuzzyNot", "FuzzyAnd", "FuzzyOr", "FuzzyOrNeg", "FuzzyUnion",
             "FuzzyEMDSAnd", "FuzzyWeightedUnion", "FuzzyEMDSWeighteddAnd",
             "FuzzyXOr", "FuzzySelectedUnion"}

InUnit(a) ==
    \A i \in DOMAIN a : a[i] = Masked \/ (IsNum(a[i]) /\ RLe(R(-1), a[i]) /\ RLe(a[i], R(1)))

Produced == EEMSFlds[lastOp.ins[1].name].data

\* C9: when the fields given to NOT, AND, OR, ORNEG, UNION, EMDSAND,
\* WTDUNION, WTDEMDSAND, XOR or SELECTEDUNION have all their values in
\* [-1,1], every value of the field the operator produces that is not
\* missing is in [-1,1].
C9_FuzzyRange ==
    (/\ lastOp.op \in FuzzyOps
     /\ lastOp.ok
     /\ \A k \in DOMAIN lastOp.args : InUnit(EEMSFlds[lastOp.args[k]].data))
    => InUnit(Produced)

C9_Witness ==
    /\ lastOp.op = "FuzzyWeightedUnion"
    /\ lastOp.ok
    /\ lastOp.args = <<"A", "B">>
    /\ \A k \in DOMAIN lastOp.args : InUnit(EEMSFlds[lastOp.args[k]].data)
    /\ Produced[1] = R(-1)
    /\ Produced[2] = Q(1, 2)

\* the place of a command in the command file
DeclNdx(c) == CHOOSE k \in 1..Len(prog) : prog[k] = c

\* the commands a step appends to the ordered list
NewlyOrdered == SubSeq(orderedCmds', Len(orderedCmds) + 1, Len(orderedCmds'))

\* C14 as stated: the commands placed in the ordered list by one sweep are
\* placed in the order of their declaration.
C14_DeclarationOrder ==
    [][\A i, j \in DOMAIN NewlyOrdered :
          i < j => DeclNdx(NewlyOrdered[i]) < DeclNdx(NewlyOrdered[j])]_vars

\* C14, amended: the commands placed in the ordered list by one sweep are
\* placed in the reverse of the order of their declaration.
C14_ReverseDeclarationOrder ==
    [][\A i, j \in DOMAIN NewlyOrdered :
          i < j => DeclNdx(NewlyOrdered[i]) > DeclNdx(NewlyOrdered[j])]_vars

\* two READ commands ordered by the first sweep, the later one first
C14_Witness ==
    /\ prog = <<S_ReadRaw, S_ReadAsA, S_NotB>>
    /\ sweeps = 1
    /\ orderedCmds = <<S_ReadAsA, S_ReadRaw>>

----------------------------------------------------------------------------
(* Properties of command construction *)

\* the statements EEMSCmd was constructed from so far
Handed == {k \in 1..stmtNdx : TRUE}

\* statement k was refused: construction raised and the load ended there
Refused(k) == pc = "failed" /\ k = stmtNdx /\ errCmds = <<prog[k]>> /\ prog[k] \notin LoadedCmds

HasLists(c) == HasParam(c, "InFieldNames") /\ HasParam(c, "Weights")

\* C11: the construction of a WTDUNION, WTDMEAN, WTDSUM or WTDEMDSAND
\* command whose InFieldNames and Weights differ in number fails, and every
\* weighted command that was constructed has one weight per input field.
C11_OneWeightPerField ==
    /\ \A k \in Handed :
          (/\ prog[k].cmd \in WeightedCmds
           /\ HasLists(prog[k])
           /\ Len(prog[k].params["InFieldNames"].s) # Len(prog[k].params["Weights"].q))
          => Refused(k)
    /\ \A c \in LoadedCmds :
          c.cmd \in WeightedCmds =>
              Len(c.params["InFieldNames"].s) = Len(c.params["Weights"].q)

C11_Witness ==
    /\ pc = "failed"
    /\ err = "WeightsCountMismatch"
    /\ prog[stmtNdx].cmd = "WTDSUM"
    /\ Len(prog[stmtNdx].params["InFieldNames"].s) = 2
    /\ Len(prog[stmtNdx].params["Weights"].q) = 3

C11_AcceptedWitness ==
    \E c \in LoadedCmds : c.cmd = "WTDEMDSAND" /\ Len(c.params["Weights"].q) = MaxLen

\* C12: the construction of a SELECTEDUNION command whose NumberToConsider
\* is greater than the number of its InFieldNames fails, and every
\* SELECTEDUNION command that was constructed has
\* 1 <= NumberToConsider <= number of input fields.
C12_NumberToConsider ==
    /\ \A k \in Handed :
          (/\ prog[k].cmd = "SELECTEDUNION"
           /\ HasParam(prog[k], "InFieldNames")
           /\ HasParam(prog[k], "NumberToConsider")
           /\ RLt(R(Len(prog[k].params["InFieldNames"].s)),
                  prog[k].params["NumberToConsider"].q[1]))
          => Refused(k)
    /\ \A c \in LoadedCmds :
          c.cmd = "SELECTEDUNION" =>
              /\ RLe(R(1), c.params["NumberToConsider"].q[1])
              /\ RLe(c.params["NumberToConsider"].q[1], R(Len(c.params["InFieldNames"].s)))

C12_Witness ==
    /\ pc = "failed"
    /\ err = "NumberToConsiderTooBig"
    /\ Len(prog[stmtNdx].params["InFieldNames"].s) = 2
    /\ prog[stmtNdx].params["NumberToConsider"].q[1] = R(3)

C12_AcceptedWitness ==
    \E c \in LoadedCmds :
        /\ c.cmd = "SELECTEDUNION"
        /\ c.params["NumberToConsider"].q[1] = R(Len(c.params["InFieldNames"].s))

\* the exceptions __ParseEEMSCmd and __ValidateCmd raise themselves: each
\* message holds the text of the command and all but the first GetCmdHelp()
ValidateCmdErrors ==
    {"InvalidCommandFormat", "CommandDoesNotUseResult", "InvalidResult", "InvalidParameter",
     "RequiredParameterMissing", "InvalidParameterValue", "RawFuzzyCountMismatch",
     "RawValuesNotUnique", "WeightsCountMismatch", "NumberToConsiderTooBig",
     "Not5FuzzyValues"}

DescribedRefusal(k) == Refused(k) /\ err \in ValidateCmdErrors \ {"InvalidCommandFormat"}

ResultMissing(c)  == c.cmd \in CmdNames /\ CmdDesc(c.cmd).Result # <<>> /\ c.rslt = <<>>
ResultUnwanted(c) == c.cmd \in CmdNames /\ CmdDesc(c.cmd).Result = <<>> /\ c.rslt # <<>>

\* C17: the construction of a command whose kind has a result type from a
\* statement without a result fails with an error that carries the statement
\* and the usage text, and so does the construction of a READ or READMULTI
\* from a statement with a result.
C17_ResultPresence ==
    \A k \in Handed :
        (ResultMissing(prog[k]) \/ ResultUnwanted(prog[k])) => DescribedRefusal(k)

\* the half of C17 about READ and READMULTI
C17_ResultUnwanted ==
    \A k \in Handed : ResultUnwanted(prog[k]) => DescribedRefusal(k)

C17_UnwantedWitness ==
    \E k \in Handed : ResultUnwanted(prog[k]) /\ DescribedRefusal(k)

\* a statement without a result ends the load with the KeyError of
\* parsedCmd['rslt']
C17_KeyErrorReached ==
    \E k \in Handed : ResultMissing(prog[k]) /\ Refused(k) /\ err = "KeyError"

----------------------------------------------------------------------------
(* Properties of the curve conversion *)

CurveDone == lastOp.op = "CvtToFuzzyCurve" /\ lastOp.ok
CurveIn   == EEMSFlds[lastOp.args[1]].data
CurveOut  == EEMSFlds[lastOp.ins[1].name].data
CurveRaw  == cmdParams["RawValues"]
CurveFzy  == cmdParams["FuzzyValues"]

\* data * m + b on the segment that ends at anchor j, held to [-1, 1]
LineAt64(x, j) ==
    LET v == FAdd(FMul(x, CurveSlope64(CurveRaw, CurveFzy, j)),
                  CurveIntercept64(CurveRaw, CurveFzy, j))
    IN  IF FLt(FInt(1), v) THEN FInt(1) ELSE IF FLt(v, FInt(-1)) THEN FInt(-1) ELSE v

\* C13 as stated: CvtToFuzzyCurve maps a cell equal to the anchor r[j] to
\* exactly f[j], for every j, a cell below the first anchor to the first
\* fuzzy value and a cell above the last anchor to the last fuzzy value.
C13_ExactAtAnchors ==
    CurveDone =>
        \A i \in DOMAIN CurveIn :
            CurveIn[i].k = "num" =>
                /\ \A j \in DOMAIN CurveRaw : CurveIn[i] = CurveRaw[j] => CurveOut[i] = CurveFzy[j]
                /\ FLt(CurveIn[i], CurveRaw[1]) => CurveOut[i] = CurveFzy[1]
                /\ FLt(CurveRaw[Len(CurveRaw)], CurveIn[i]) => CurveOut[i] = CurveFzy[Len(CurveFzy)]

\* C13, amended: a cell equal to the first anchor or below it is mapped to
\* exactly the first fuzzy value, a cell above the last anchor to exactly the
\* last fuzzy value, and a cell equal to a later anchor r[j] to the float64
\* value of r[j] * m + b of the segment that ends at r[j], held to [-1, 1].
C13_Anchors ==
    CurveDone =>
        \A i \in DOMAIN CurveIn :
            CurveIn[i].k = "num" =>
                /\ FLe(CurveIn[i], CurveRaw[1]) => CurveOut[i] = CurveFzy[1]
                /\ FLt(CurveRaw[Len(CurveRaw)], CurveIn[i]) => CurveOut[i] = CurveFzy[Len(CurveFzy)]
                /\ \A j \in 2..Len(CurveRaw) :
                      CurveIn[i] = CurveRaw[j] => CurveOut[i] = LineAt64(CurveRaw[j], j)

\* an anchor after the first one whose cell is not mapped to its fuzzy value
C13_Witness ==
    /\ CurveDone
    /\ lastOp.args = <<"A">>
    /\ CurveRaw = <<FInt(0), FInt(1)>>
    /\ CurveFzy = <<FInt(-1), FDec(3, 10)>>
    /\ \E i \in DOMAIN CurveIn : CurveIn[i] = FInt(1) /\ CurveOut[i] # FDec(3, 10)

\* an anchor between two others whose cell is mapped to exactly its fuzzy value
C13_ExactWitness ==
    /\ CurveDone
    /\ Len(CurveRaw) = 3
    /\ \E i \in DOMAIN CurveIn :
          CurveIn[i] = CurveRaw[2] /\ CurveOut[i] = CurveFzy[2] /\ CurveFzy[2] # CurveFzy[1]

----------------------------------------------------------------------------
(* Properties of the order of load and run *)

\* every statement was constructed, checked and ordered
LoadComplete ==
    /\ stmtNdx = Len(prog)
    /\ unorderedCmds = <<>>
    /\ Len(orderedCmds) = Len(prog)
    /\ \A c \in Range(orderedCmds) : ValidateCmd(c) = "ok"
    /\ \A i \in DOMAIN orderedCmds :
          \A f \in Range(GetDependFieldNms(orderedCmds[i])) :
              \E j \in 1..(i - 1) : f \in DefinedFlds(orderedCmds[j])

\* the engine was not called and holds nothing
EngineUntouched ==
    /\ dispatched = <<>>
    /\ EEMSFlds = NoFlds
    /\ arrayShape = None
    /\ lastOp = NoOp
    /\ finishCnt = 0

C15_State ==
    /\ pc \in {"reading", "ordering", "failed"} => EngineUntouched
    /\ ~EngineUntouched => LoadComplete

C15_Step ==
    /\ pc = "failed" => pc' = "failed" /\ EngineUntouched'
    /\ <<dispatched, EEMSFlds, arrayShape, lastOp, finishCnt>>'
          # <<dispatched, EEMSFlds, arrayShape, lastOp, finishCnt>> => LoadComplete

\* C15: no engine operation is invoked and the registry is not modified
\* until every statement of the program has been parsed, validated, checked
\* for duplicate and undefined fields and ordered; after a load that failed
\* no engine operation is ever invoked.
C15_LoadBeforeRun == [](C15_State) /\ [][C15_Step]_vars

\* a run that read a field, after a load that needed two sweeps
C15_Witness ==
    /\ sweeps >= 2
    /\ LoadComplete
    /\ Len(dispatched) >= 1
    /\ EEMSFlds # NoFlds

\* a load that failed in the ordering, the engine untouched
C15_FailedWitness ==
    /\ pc = "failed"
    /\ err = "CircularLogic"
    /\ orderedCmds # <<>>
    /\ EngineUntouched

----------------------------------------------------------------------------
(* Properties of the reassembly of statements *)

\* what line l holds once its comment and outer blanks are removed
Content(l) == Strip(StripComment(inLines[l]))

Count(line, ch) == Cardinality({i \in DOMAIN line : line[i] = ch})

\* the parenthesis depth after line l
RECURSIVE Depth(_)
Depth(l) == IF l = 0 THEN 0 ELSE Depth(l - 1) + Count(Content(l), "(") - Count(Content(l), ")")

\* the lines on which a statement ends
ClosingLines == {l \in DOMAIN inLines : Depth(l) = 0 /\ Count(Content(l), ")") > 0}

\* the first line after the last complete statement that holds a character
\* of a statement
FirstCharLine ==
    LET after == {l \in DOMAIN inLines : /\ \A c \in ClosingLines : c < l
                                         /\ Content(l) # <<>>}
    IN  CHOOSE l \in after : \A k \in after : l <= k

EndedInsideStatement == pc # "reading" /\ inLineCnt = Len(inLines) /\ parenCnt > 0

\* C16: when the text ends while the parenthesis depth is positive, load
\* fails with the unmatched-left-paren error and the line reported is the
\* line holding the first character of the incomplete statement
C16_UnmatchedLeftParen ==
    EndedInsideStatement =>
        /\ pc = "failed"
        /\ err = "UnmatchedLeftParen"
        /\ errLineNum = <<FirstCharLine>>

\* an incomplete statement that starts after a blank or comment line and
\* runs over a continuation line
C16_Witness ==
    /\ EndedInsideStatement
    /\ err = "UnmatchedLeftParen"
    /\ Len(inLines) = 3
    /\ Content(1) = <<>>
    /\ Content(3) # <<>>
    /\ errLineNum = <<2>>

\* an incomplete statement that follows a complete one
C16_AfterStatementWitness ==
    /\ EndedInsideStatement
    /\ err = "UnmatchedLeftParen"
    /\ ClosingLines # {}
    /\ errLineNum = <<FirstCharLine>>

----------------------------------------------------------------------------
(* Properties of the dispatch of commands to the engine *)

\* this step is a pass of the work loop of RunProgram on a command
Dispatches == pc \in {"ready", "running"} /\ Len(dispatched') = Len(dispatched) + 1

\* the names of the fields a command reads
InputNames(c) ==
    {nm \in {"A", "B", "raw", "E", "D", "Z", "W"} :
        \E p \in DOMAIN c.params \cap {"InFieldName", "InFieldNames", "StartingFieldName",
                                       "ToSubtractFieldName"} :
            \E i \in DOMAIN c.params[p].s : c.params[p].s[i] = nm}

InFuzzyRange(x) == x = Masked \/ (IsNum(x) /\ RLe(R(-1), x) /\ RLe(x, R(1)))

\* every input field of the command is in the registry and every cell of it
\* is masked or a number of [-1, 1]
InputsPresentInRange(c) ==
    \A nm \in InputNames(c) :
        /\ nm \in DOMAIN EEMSFlds
        /\ \A i \in DOMAIN EEMSFlds[nm].data : InFuzzyRange(EEMSFlds[nm].data[i])

\* the call returned and the registry gained the field of the command, and
\* nothing else
AddsResult(c) ==
    /\ lastOp'.ok
    /\ GetResultName(c) \notin DOMAIN EEMSFlds
    /\ DOMAIN EEMSFlds' = DOMAIN EEMSFlds \cup {GetResultName(c)}

\* C18: the run of a valid command of any kind other than READ, READMULTI
\* and CALLEXTERN, with its input fields present and in range, returns from
\* an engine operation with exactly one new field, named by the command's
\* result name, in the registry.
C18_EveryKindAddsResult ==
    [][(/\ Dispatches
        /\ GetCommandName(GetCrntCmd) \notin {"READ", "READMULTI", "CALLEXTERN"}
        /\ InputsPresentInRange(GetCrntCmd))
       => AddsResult(GetCrntCmd)]_vars

\* the data of a field lie on both sides of their mean
HasSpread(nm) ==
    LET data == EEMSFlds[nm].data
    IN  /\ \E i \in DOMAIN data : Lt(data[i], ArrMean(data))
        /\ \E i \in DOMAIN data : Lt(ArrMean(data), data[i])

\* the same of every kind but WTDEMDSAND, of XOR and SELECTEDUNION only
\* where exec() binds the name the next line reads, and of MEANTOMID only on
\* data that lie on both sides of their mean
C18_OtherKindsAddResult ==
    [][(/\ Dispatches
        /\ GetCommandName(GetCrntCmd) \notin {"READ", "READMULTI", "CALLEXTERN", "WTDEMDSAND"}
        /\ GetCommandName(GetCrntCmd) \in {"XOR", "SELECTEDUNION"} => execBinds
        /\ GetCommandName(GetCrntCmd) = "MEANTOMID" => HasSpread("A")
        /\ InputsPresentInRange(GetCrntCmd))
       => AddsResult(GetCrntCmd)]_vars

\* a WTDEMDSAND command with its inputs in range ended the run with the
\* AttributeError of the call of FuzzyEMDSWeightedAnd
C18_AttributeErrorReached ==
    /\ pc = "raised"
    /\ err = "AttributeError"
    /\ lastOp.op = "WTDEMDSAND"
    /\ InputsPresentInRange(prog[2])
    /\ "W" \notin DOMAIN EEMSFlds

\* a command of another kind ran and left its field
C18_AddedReached ==
    /\ pc = "finished"
    /\ lastOp.op = "MEANTOMID"
    /\ "W" \in DOMAIN EEMSFlds

----------------------------------------------------------------------------
(* Properties of the fuzzy range check *)

FuzzyInputCmds == {cmd \in CmdNames : CmdDesc(cmd).InputType = "Fuzzy"}

\* the field holds a value below -1 or above 1
OutOfRange(nm) ==
    \E i \in DOMAIN EEMSFlds[nm].data :
        LET x == EEMSFlds[nm].data[i]
        IN  IsNum(x) /\ (RLt(x, R(-1)) \/ RLt(R(1), x))

HoldsNaN(nm) == \E i \in DOMAIN EEMSFlds[nm].data : EEMSFlds[nm].data[i] = NaN

SomeInputOutOfRange(c) ==
    \E nm \in InputNames(c) \cap DOMAIN EEMSFlds : OutOfRange(nm)

\* the call raised the fuzzy-range error and the registry is as it was
RefusedForRange ==
    /\ ~lastOp'.ok
    /\ lastOp'.err = "FuzzyRange"
    /\ EEMSFlds' = EEMSFlds

\* C19: the run of a command whose input type is Fuzzy, when one of its
\* input fields holds a value below -1 or above 1, fails with the
\* fuzzy-range error before a field is added to the registry.
C19_FuzzyRangeChecked ==
    [][(/\ Dispatches
        /\ GetCommandName(GetCrntCmd) \in FuzzyInputCmds
        /\ SomeInputOutOfRange(GetCrntCmd))
       => RefusedForRange]_vars

\* the same where the out-of-range field holds no NaN and the command is
\* not a WTDEMDSAND, whose dispatch raises before the engine is reached
C19_CheckedWithoutNaN ==
    [][(/\ Dispatches
        /\ GetCommandName(GetCrntCmd) \in FuzzyInputCmds \ {"WTDEMDSAND"}
        /\ \A nm \in InputNames(GetCrntCmd) : nm \in DOMAIN EEMSFlds /\ ~HoldsNaN(nm)
        /\ SomeInputOutOfRange(GetCrntCmd))
       => RefusedForRange]_vars

\* a NOT of a field that holds 2 and NaN ran to the end and left its field
C19_NaNHidesRange ==
    /\ pc = "finished"
    /\ lastOp.op = "NOT"
    /\ "A" \in DOMAIN EEMSFlds
    /\ OutOfRange("A")
    /\ HoldsNaN("A")
    /\ "W" \in DOMAIN EEMSFlds

\* a command refused for the range of an input
C19_RefusedReached ==
    /\ pc = "raised"
    /\ err = "FuzzyRange"
    /\ lastOp.op = "OR"
    /\ OutOfRange("A")
    /\ "W" \notin DOMAIN EEMSFlds

----------------------------------------------------------------------------
(* Properties of the frame of the operators *)

\* C20: an operator call that returns leaves every field the registry held,
\* with its destination tag and data, and adds exactly one field; an
\* operator call that raises leaves the registry as it was.
C20_OperatorFrame ==
    [][IF lastOp'.ok
       THEN /\ \A nm \in DOMAIN EEMSFlds :
                  nm \in DOMAIN EEMSFlds' /\ EEMSFlds'[nm] = EEMSFlds[nm]
            /\ Cardinality(DOMAIN EEMSFlds' \ DOMAIN EEMSFlds) = 1
       ELSE EEMSFlds' = EEMSFlds]_vars

\* a sum of two fields returned: both are as they were read and the result
\* is the one field added
C20_Witness ==
    /\ pc = "engine"
    /\ lastOp.ok
    /\ lastOp.op = "SumFlds"
    /\ lastOp.args = <<"A", "B">>
    /\ DOMAIN EEMSFlds = {"A", "B", "X"}
    /\ EEMSFlds["A"].data = inFile["A"]
    /\ EEMSFlds["B"].data = inFile["B"]

\* an operator call raised and the registry holds what was read
C20_FailedWitness ==
    /\ pc = "raised"
    /\ ~lastOp.ok
    /\ lastOp.op = "FuzzyOr"
    /\ err = "FuzzyRange"
    /\ DOMAIN EEMSFlds = {"A", "B"}

----------------------------------------------------------------------------
(* Properties of XOR *)

\* the values the inputs of the last call hold in cell i
InputCell(i) == [k \in DOMAIN lastOp.args |-> EEMSFlds[lastOp.args[k]].data[i]]

\* the largest value of a cell, and the largest of the others
Largest(cell) == CHOOSE k \in DOMAIN cell : \A j \in DOMAIN cell : RLe(cell[j], cell[k])
Truest(cell)  == cell[Largest(cell)]
SecondTruest(cell) == Truest(Pop(cell, Largest(cell)))

\* truest - (truest - secondTruest) * (secondTruest + 1) / (truest + 1), which
\* is 0 / 0 where the truest value is -1
XOrFormula(t, s) ==
    IF t = R(-1) THEN NaN
    ELSE RSub(t, RDiv(RMul(RSub(t, s), RAdd(s, R(1))), RAdd(t, R(1))))

\* the cells of the last call in which every input holds a number
NumberCells == {i \in DOMAIN Produced : \A k \in DOMAIN InputCell(i) : IsNum(InputCell(i)[k])}

XOrReturned == lastOp.op = "FuzzyXOr" /\ lastOp.ok
XOrOfOne    == lastOp.op = "FuzzyXOr" /\ Len(lastOp.args) < 2

C21_OfOneWitness == XOrOfOne /\ pc = "raised" /\ err = "XOrNeedsTwo"

----------------------------------------------------------------------------
(* Properties of CALLEXTERN *)

ExternCmd(c) == GetCommandName(c) = "CALLEXTERN"

\* the statement names a parameter the description of its command does not
ExtraParams(c) ==
    DOMAIN c.params \ (DOMAIN CmdDesc(c.cmd).Required \cup DOMAIN CmdDesc(c.cmd).Optional)

\* C22: a CALLEXTERN statement that names its required parameters, with or
\* without parameters of other names, is accepted when the file is loaded,
\* and its run ends with the error CallExtern raises, "CALLEXTERN is not
\* implemented", and adds no field.
C22_NotImplemented ==
    /\ (pc = "raised" /\ err \in ValidateCmdErrors) => ~ExternCmd(prog[2])
    /\ lastOp.op = "CALLEXTERN" =>
          /\ pc = "raised"
          /\ err = CallExtern(EngineState).err
          /\ DOMAIN EEMSFlds = {"A", "B"}

\* what holds of the run: it ends with an error and adds no field
C22_FailsAddingNothing ==
    /\ (pc = "raised" /\ err \in ValidateCmdErrors) => ~ExternCmd(prog[2])
    /\ lastOp.op = "CALLEXTERN" =>
          /\ pc = "raised"
          /\ ~lastOp.ok
          /\ DOMAIN EEMSFlds = {"A", "B"}

\* a CALLEXTERN statement with a parameter of another name was loaded and
\* run, and the run ended with the TypeError of the call CallExtern(name)
C22_TypeErrorReached ==
    /\ ExternCmd(prog[2])
    /\ ExtraParams(prog[2]) # {}
    /\ lastOp.op = "CALLEXTERN"
    /\ pc = "raised"
    /\ err = "TypeError"

----------------------------------------------------------------------------
(* Properties of the linear conversion *)

\* a call of CvtToFuzzy on a field of the registry that holds a number, with
\* a result name the registry does not hold
CvtCall ==
    /\ lastOp'.op = "CvtToFuzzy"
    /\ lastOp'.args[1] \in DOMAIN EEMSFlds
    /\ \E i \in DOMAIN EEMSFlds[lastOp'.args[1]].data : EEMSFlds[lastOp'.args[1]].data[i] # Masked
    /\ \A k \in DOMAIN lastOp'.ins : lastOp'.ins[k].name \notin DOMAIN EEMSFlds

CvtInput == EEMSFlds[lastOp'.args[1]].data

\* -9999 stands for the least value of the field, 9999 for the greatest
Resolved(t) ==
    IF t = R(-9999) THEN ArrMin(CvtInput)
    ELSE IF t = R(9999) THEN ArrMax(CvtInput)
    ELSE t

TrueResolved  == Resolved(lastOp'.consts[1])
FalseResolved == Resolved(lastOp'.consts[2])

\* equal as numbers (a NaN equals nothing)
ThresholdsEqual == IsNum(TrueResolved) /\ IsNum(FalseResolved) /\ TrueResolved = FalseResolved

Clamped(v) == IF RLt(R(1), v) THEN R(1) ELSE IF RLt(v, R(-1)) THEN R(-1) ELSE v

\* the line through (falseThresh, -1) and (trueThresh, +1), clamped
OnTheLine(x) ==
    Clamped(RSub(RDiv(RMul(R(2), RSub(x, FalseResolved)), RSub(TrueResolved, FalseResolved)),
                 R(1)))

CvtRefused ==
    /\ ~lastOp'.ok
    /\ lastOp'.err = "DegenerateThresholds"
    /\ EEMSFlds' = EEMSFlds

CvtAdded ==
    /\ lastOp'.ok
    /\ Len(lastOp'.ins) = 1
    /\ DOMAIN EEMSFlds' = DOMAIN EEMSFlds \cup {lastOp'.ins[1].name}
    /\ \A nm \in DOMAIN EEMSFlds : EEMSFlds'[nm] = EEMSFlds[nm]
    /\ LET new == EEMSFlds'[lastOp'.ins[1].name].data
       IN  /\ DOMAIN new = DOMAIN CvtInput
           /\ \A i \in DOMAIN new :
                 IF IsNum(CvtInput[i]) /\ IsNum(TrueResolved) /\ IsNum(FalseResolved)
                 THEN new[i] = OnTheLine(CvtInput[i])
                 ELSE ~IsNum(new[i])

\* C23: CvtToFuzzy raises the error of the degenerate mapping and adds no
\* field exactly when the true and false thresholds, with -9999 resolved to
\* the least and 9999 to the greatest value of the field, are equal;
\* otherwise it adds a field whose values lie on the line that takes the
\* false threshold to -1 and the true threshold to +1, clamped to [-1, 1].
C23_CvtToFuzzy ==
    [][CvtCall => IF ThresholdsEqual THEN CvtRefused ELSE CvtAdded]_vars

\* the last call gave thresholds that name the ends of the field
CvtByEnds == lastOp.op = "CvtToFuzzy" /\ lastOp.consts = <<R(9999), R(-9999)>>

\* a true threshold of 1 and a false threshold that names the greatest value
\* of a field, which is 1, were refused
C23_Witness ==
    /\ lastOp.op = "CvtToFuzzy"
    /\ lastOp.consts = <<R(1), R(9999)>>
    /\ pc = "raised"
    /\ err = "DegenerateThresholds"
    /\ lastOp.args[1] \in DOMAIN EEMSFlds
    /\ \E i \in DOMAIN EEMSFlds[lastOp.args[1]].data : IsNum(EEMSFlds[lastOp.args[1]].data[i])

\* the thresholds that name the ends of a field of several values gave a
\* field that holds -1 and +1
C23_AddedWitness ==
    /\ CvtByEnds
    /\ lastOp.ok
    /\ \E i \in DOMAIN Produced : Produced[i] = R(-1)
    /\ \E i \in DOMAIN Produced : Produced[i] = R(1)
    /\ \E i \in DOMAIN Produced : Produced[i] = R(0)

----------------------------------------------------------------------------
(* Properties of the ordered list *)

\* how many times cmd occurs in cmds
Occurrences(cmds, cmd) == Cardinality({k \in DOMAIN cmds : cmds[k] = cmd})

\* C24: after a successful load the ordered list is a permutation of the
\* statements the file holds, all of them accepted: the unordered list is
\* empty, every statement occurs in the ordered list as often as in the
\* file, and the ordered list holds no other command.
C24_Permutation ==
    pc = "loaded" =>
        /\ stmtNdx = Len(prog)
        /\ unorderedCmds = <<>>
        /\ Len(orderedCmds) = Len(prog)
        /\ \A k \in DOMAIN prog :
              Occurrences(orderedCmds, prog[k]) = Occurrences(prog, prog[k])
        /\ Range(orderedCmds) \subseteq Range(prog)

\* three statements declared in another order than the one they are run in
C24_Witness ==
    /\ pc = "loaded"
    /\ Len(prog) = 3
    /\ orderedCmds # prog
    /\ \E k \in DOMAIN prog : ~IsReadCmd(prog[k])

----------------------------------------------------------------------------
(* Properties of the ordering loop *)

Sweeping == pc = "ordering" /\ sweeps' = sweeps + 1

C25_Step ==
    Sweeping =>
        \/ Len(unorderedCmds') < Len(unorderedCmds)
        \/ pc' = "failed" /\ err' = "CircularLogic"

C25_State ==
    /\ sweeps <= Len(prog)
    /\ pc = "ordering" => sweeps < Len(prog)
    /\ pc = "ordering" => Len(unorderedCmds) > 0

\* C25: the ordering loop terminates: every sweep over the unordered list
\* moves at least one command to the ordered list or raises the
\* circular-logic error, so a load of n commands ends, loaded or failed,
\* after at most n sweeps.
C25_Terminates ==
    /\ [][C25_Step]_vars
    /\ [](C25_State)
    /\ (pc = "ordering") ~> (pc \in {"loaded", "failed"})

\* a load of three commands that took three sweeps
C25_Witness ==
    /\ pc = "loaded"
    /\ Len(prog) = 3
    /\ sweeps = 3

\* a load that the circular-logic error ended after a sweep that moved a
\* command
C25_CircularWitness ==
    /\ pc = "failed"
    /\ err = "CircularLogic"
    /\ sweeps = 2

----------------------------------------------------------------------------
(* Properties of the commands that return fuzzy fields *)

FuzzyRtrnCmds == {cmd \in CmdNames : CmdDesc(cmd).RtrnType = "Fuzzy"}

\* the last command ran and left the field W
LeftResult(cmds) == lastOp.op \in cmds /\ lastOp.ok /\ "W" \in DOMAIN EEMSFlds

\* every cell that holds a number holds one of [-1, 1]
NumbersInFuzzyRange(a) == \A i \in DOMAIN a : IsNum(a[i]) => InFuzzyRange(a[i])

\* C26: the field left by a command whose return type is Fuzzy, written with
\* any parameters construction accepts, holds no number outside [-1, 1].
C26_FuzzyReturn ==
    LeftResult(FuzzyRtrnCmds) => NumbersInFuzzyRange(EEMSFlds["W"].data)

\* the same of every command but CVTTOFUZZYCAT, run on fields without NaN
C26_FuzzyReturnOfOthers ==
    (/\ LeftResult(FuzzyRtrnCmds \ {"CVTTOFUZZYCAT"})
     /\ \A nm \in InputNames(prog[2]) \cap DOMAIN EEMSFlds : ~HoldsNaN(nm))
    => NumbersInFuzzyRange(EEMSFlds["W"].data)

\* CVTTOFUZZYCAT with the default 5 left a field that holds 5
C26_DefaultOutOfRange ==
    /\ LeftResult({"CVTTOFUZZYCAT"})
    /\ prog[2].params["DefaultFuzzyValue"] = QV(R(5))
    /\ \E i \in DOMAIN EEMSFlds["W"].data : EEMSFlds["W"].data[i] = R(5)

----------------------------------------------------------------------------
(* Properties of the Positive Integer type *)

\* a whole number greater than zero
PositiveWhole(x) == x[2] = 1 /\ x[1] > 0

SelectedUnionAt(k) ==
    /\ prog[k].cmd = "SELECTEDUNION"
    /\ HasParam(prog[k], "InFieldNames")
    /\ HasParam(prog[k], "NumberToConsider")

ToConsider(k) == prog[k].params["NumberToConsider"].q[1]
FieldsOf(k)   == Len(prog[k].params["InFieldNames"].s)

RefusedForValue(k) == Refused(k) /\ err = "InvalidParameterValue"

\* C27: the NumberToConsider of a SELECTEDUNION statement passes the check
\* of its type, Positive Integer, when it is a whole number greater than
\* zero, of one digit or more, and fails it otherwise; a SELECTEDUNION over
\* ten fields or more is constructed with any NumberToConsider from 1 to the
\* number of its fields.
C27_PositiveInteger ==
    \A k \in Handed :
        SelectedUnionAt(k) =>
            /\ RefusedForValue(k) <=> ~PositiveWhole(ToConsider(k))
            /\ (/\ FieldsOf(k) >= ManyFlds
                /\ PositiveWhole(ToConsider(k))
                /\ ToConsider(k)[1] <= FieldsOf(k)) => ~Refused(k)

\* what holds: the check passes for the whole numbers 1 to 9 and for no
\* other value
C27_OneDigit ==
    \A k \in Handed :
        SelectedUnionAt(k) =>
            (RefusedForValue(k) <=> ~(PositiveWhole(ToConsider(k)) /\ ToConsider(k)[1] <= 9))

\* a SELECTEDUNION of ten fields with NumberToConsider = 10 was refused for
\* the value of the parameter
C27_TenRefused ==
    /\ stmtNdx > 0
    /\ SelectedUnionAt(stmtNdx)
    /\ FieldsOf(stmtNdx) = ManyFlds
    /\ ToConsider(stmtNdx) = R(ManyFlds)
    /\ RefusedForValue(stmtNdx)

\* the same with NumberToConsider = 9 was constructed
C27_NineAccepted ==
    \E c \in LoadedCmds :
        /\ c.cmd = "SELECTEDUNION"
        /\ Len(c.params["InFieldNames"].s) = ManyFlds
        /\ c.params["NumberToConsider"].q[1] = R(ManyFlds - 1)

----------------------------------------------------------------------------
(* Properties of a failed insertion *)

\* the call reached _AddFieldToEEMSFlds
InsertionAttempted == lastOp'.ins # <<>>

\* and the insertion raised
InsertionFailed == InsertionAttempted /\ ~lastOp'.ok

\* C28: an insertion that fails, for a name the registry already holds or
\* for an array of another shape, leaves the registry and the remembered
\* shape as they were; the first insertion attempted on an engine finds
\* neither a name nor a shape to fail on.
C28_FailedInsertion ==
    [][/\ InsertionFailed =>
            /\ lastOp'.err \in {"TypeError", "DataShapeMismatch"}
            /\ EEMSFlds' = EEMSFlds
            /\ arrayShape' = arrayShape
       /\ (InsertionAttempted /\ EEMSFlds = NoFlds /\ arrayShape = None) => lastOp'.ok]_vars

\* an array of another shape was refused and the shape of the fields the
\* registry holds is still remembered
C28_Witness ==
    /\ pc = "raised"
    /\ lastOp.err = "DataShapeMismatch"
    /\ lastOp.ins # <<>>
    /\ lastOp.ins[1].name \notin DOMAIN EEMSFlds
    /\ Cardinality(DOMAIN EEMSFlds) = 1
    /\ arrayShape # lastOp.ins[1].shape
    /\ \A f \in DOMAIN EEMSFlds : <<Len(EEMSFlds[f].data)>> = arrayShape

\* a name the registry holds was refused
C28_DuplicateWitness ==
    /\ pc = "raised"
    /\ lastOp.err = "TypeError"
    /\ lastOp.ins # <<>>
    /\ lastOp.ins[1].name \in DOMAIN EEMSFlds

----------------------------------------------------------------------------
(* Properties of the cursor after a load *)

CursorValid == crntCmdNdx # None /\ crntCmdNdx[1] \in 0..(Len(orderedCmds) - 1)

C29_State == pc = "loaded" => (crntCmdNdx = None \/ CursorValid)

C29_Step ==
    (pc = "loaded" /\ crntCmdNdx = None) =>
        /\ rtrn'.op \in {"NextCmd", "PrevCmd"} =>
              (rtrn'.val = "TypeError" /\ crntCmdNdx' = None)
        /\ crntCmdNdx' # None => (rtrn'.op = "SetCrntCmdToFirst" /\ crntCmdNdx' = <<0>>)

\* C29: after a successful load, whatever calls of NextCmd, PrevCmd and
\* SetCrntCmdToFirst are made, the cursor is None or an index of the ordered
\* list; when it is None, NextCmd and PrevCmd raise and leave it None, and
\* only SetCrntCmdToFirst gives it a value again.
C29_Cursor == [](C29_State) /\ [][C29_Step]_vars

\* PrevCmd raised on the cursor that NextCmd had set to None past the last
\* of three commands
C29_Witness ==
    /\ pc = "loaded"
    /\ Len(orderedCmds) = 3
    /\ crntCmdNdx = None
    /\ rtrn = Rtrn("PrevCmd", "TypeError")

\* SetCrntCmdToFirst made a cursor that was None valid again
C29_ResetWitness ==
    /\ pc = "loaded"
    /\ rtrn = Rtrn("SetCrntCmdToFirst", "None")
    /\ CursorValid

----------------------------------------------------------------------------
(* Properties of the text handed to the parser *)

NotBlank(text) == SelectSeq(text, LAMBDA ch : ch # " ")

\* the characters of the lines 1 .. l that are neither comment nor blank
RECURSIVE TextUpTo(_)
TextUpTo(l) == IF l = 0 THEN <<>> ELSE TextUpTo(l - 1) \o NotBlank(Content(l))

\* the characters of the statements handed to the parser, in order
RECURSIVE Joined(_)
Joined(strs) == IF strs = <<>> THEN <<>> ELSE NotBlank(Head(strs)) \o Joined(Tail(strs))

\* the text ends with its only return to depth zero
ClosesOnce(str) ==
    /\ str # <<>>
    /\ str[Len(str)] = ")"
    /\ \A i \in 1..(Len(str) - 1) :
          Count(SubSeq(str, 1, i), "(") > 0 =>
              Count(SubSeq(str, 1, i), "(") > Count(SubSeq(str, 1, i), ")")

\* C30: when the load succeeds, the characters of the file that are neither
\* comment nor blank are, in order, the characters of the statements handed
\* to the parser, each statement running from the end of the one before it
\* to its own closing parenthesis: no text is left out of the statements.
C30_NothingDropped ==
    pc = "loaded" =>
        /\ \A k \in DOMAIN cmdStrs : ClosesOnce(cmdStrs[k])
        /\ Joined(cmdStrs) = TextUpTo(Len(inLines))

\* what holds: the statements handed to the parser are followed by the text
\* still in the buffer when the file ended, which holds no parenthesis and
\* is handed to nobody
C30_DroppedAtEnd ==
    pc = "loaded" =>
        /\ \A k \in DOMAIN cmdStrs : ClosesOnce(cmdStrs[k])
        /\ Joined(cmdStrs) \o NotBlank(cmdLine) = TextUpTo(Len(inLines))
        /\ Count(cmdLine, "(") = 0 /\ Count(cmdLine, ")") = 0

\* a load succeeded with text after its last statement
C30_TrailingTextReached ==
    /\ pc = "loaded"
    /\ cmdLine # <<>>
    /\ Content(Len(inLines)) = cmdLine

\* a load succeeded on a statement whose result name is made of a line
\* without parentheses and the head of the line after it
C30_MergedReached ==
    /\ pc = "loaded"
    /\ Len(inLines) = 3
    /\ Content(2) = L_Head
    /\ Content(3) = L_NotB
    /\ Len(prog) = 2
    /\ GetResultName(prog[2]) = "BNOTB"

============================================================================
